---- MODULE Spec2Model ----
(***************************************************************************)
(* vssh: one invocation of the root command.  The command loads the        *)
(* configuration, makes sure the Vault session holds a usable token        *)
(* (EnsureAuthenticated), parses the target, makes sure a usable signed    *)
(* certificate is on disk (EnsureSSHCertificate), and runs ssh with it     *)
(* (Connect).  Vault, the operator at the terminal, the file system and    *)
(* the ssh child are the environment: their answers are inputs.            *)
(***************************************************************************)
EXTENDS Integers, Sequences, FiniteSets, TLC

(***************************************************************************)
(* Machine integers.  Go's uint64/int64/time.Duration are 64 bits wide and *)
(* a Duration counts nanoseconds.  The model keeps the same arithmetic     *)
(* (unsigned difference, reinterpretation as signed, wrapping product) in  *)
(* WordBits bits, with Second ticks to a second.                           *)
(***************************************************************************)
WordBits == 16
Second == 8

U64 == 2 ^ WordBits
I64Half == 2 ^ (WordBits - 1)
Minute == 60 * Second
FiveMinutes == 5 * Minute
CertTimeInfinity == U64 - 1

\* int64(x): the two's complement reading of the low WordBits bits of x
ToInt64(x) ==
  LET m == x % U64 IN IF m >= I64Half THEN m - U64 ELSE m

\* uint64(a) - uint64(b), wrapping
SubU64(a, b) == (a - b) % U64

\* time.Duration(n) * time.Second, wrapping as Go's int64 product does
SecondsToDuration(n) == ToInt64(ToInt64(n) * Second)

\* the largest whole number of seconds a Duration can hold
MaxDurationSeconds == (I64Half - 1) \div Second

(***************************************************************************)
(* Text.  A text is a sequence of chunks; a chunk is one run of white      *)
(* space (" " or "\n") or one word.  strings.TrimSpace drops the white     *)
(* space at both ends and keeps what is between.                           *)
(***************************************************************************)
IsSpace(c) == c \in {" ", "\n"}

RECURSIVE TrimLeft(_)
TrimLeft(s) ==
  IF s = <<>> THEN <<>>
  ELSE IF IsSpace(Head(s)) THEN TrimLeft(Tail(s)) ELSE s

RECURSIVE TrimRight(_)
TrimRight(s) ==
  IF s = <<>> THEN <<>>
  ELSE IF IsSpace(s[Len(s)]) THEN TrimRight(SubSeq(s, 1, Len(s) - 1)) ELSE s

RECURSIVE Flatten(_)
Flatten(s) == IF s = <<>> THEN "" ELSE Head(s) \o Flatten(Tail(s))

\* strings.TrimSpace(text), as a string
TrimSpace(s) == Flatten(TrimRight(TrimLeft(s)))

\* []byte(str) as it lands in a file
Bytes(str) == IF str = "" THEN <<>> ELSE <<str>>

(***************************************************************************)
(* Paths are sequences of components; filepath.Join concatenates them.     *)
(***************************************************************************)
Home == <<"home", "op">>

Join(dir, name) == dir \o name

RECURSIVE PathStr(_)
PathStr(p) ==
  IF p = <<>> THEN ""
  ELSE IF Len(p) = 1 THEN Head(p)
  ELSE Head(p) \o "/" \o PathStr(Tail(p))

(***************************************************************************)
(* Vault, as this client sees it.  A token is an opaque word; what the     *)
(* server answers to a self-lookup with it is the server's business.  The  *)
(* remaining time-to-live is a whole number of seconds that the server     *)
(* itself holds in a Duration.                                             *)
(***************************************************************************)
NoData == [kind |-> "nodata"]
LookupErr == [kind |-> "err"]
TTL(n) == [kind |-> "ttl", ttl |-> n]
\* LookupSelf returning (nil, nil): a reply without a body
NoSecret == [kind |-> "nosecret"]
\* data without a "ttl" entry, and a "ttl" entry that is no number
NoTTL == [kind |-> "nottl"]
BadType == [kind |-> "badtype"]

Tokens ==
  {"tok300", "tok299", "tok403", "tok3600", "tokNil", "tokNoData", "tokNoTTL",
   "tokBadTTL"}

LookupSelf(tok) ==
  CASE tok = "tok300" -> TTL(300)
    [] tok = "tok3600" -> TTL(3600)
    [] tok = "tok299" -> TTL(299)
    [] tok = "tokNil" -> NoSecret
    [] tok = "tokNoData" -> NoData
    [] tok = "tokNoTTL" -> NoTTL
    [] tok = "tokBadTTL" -> BadType
    [] OTHER -> LookupErr

\* a variant of the margin test that also rejects exactly five minutes
TokenValidForStrict(tok, resp) ==
  IF tok = "" THEN FALSE
  ELSE IF resp.kind # "ttl" THEN FALSE
  ELSE IF SecondsToDuration(resp.ttl) <= FiveMinutes THEN FALSE
  ELSE TRUE

\* a variant that takes a failed lookup for a usable token
TokenValidForLenient(tok, resp) ==
  IF tok = "" THEN FALSE
  ELSE IF resp.kind = "err" THEN TRUE
  ELSE IF resp.kind # "ttl" THEN FALSE
  ELSE IF SecondsToDuration(resp.ttl) < FiveMinutes THEN FALSE
  ELSE TRUE

\* Client.IsTokenValid against a given lookup answer
TokenValidFor(tok, resp) ==
  IF tok = "" THEN FALSE
  ELSE IF resp.kind = "err" THEN FALSE
  ELSE IF resp.kind = "nodata" THEN FALSE
  ELSE IF resp.kind = "nottl" THEN FALSE
  ELSE IF resp.kind = "badtype" THEN FALSE
  ELSE IF SecondsToDuration(resp.ttl) < FiveMinutes THEN FALSE
  ELSE TRUE

\* secret.Data is read without a test of secret: with err == nil and
\* secret == nil the read is a nil dereference and IsTokenValid panics
IsTokenValidPanics(tok) == tok # "" /\ LookupSelf(tok) = NoSecret

\* the boolean IsTokenValid returns, where it returns
IsTokenValid(tok) ==
  TokenValidFor(tok, IF tok = "" \/ IsTokenValidPanics(tok) THEN NoData
                     ELSE LookupSelf(tok))

\* the self-lookups one IsTokenValid call sends
LookupCalls(tok) == IF tok = "" THEN <<>> ELSE <<[op |-> "lookup", tok |-> tok]>>

(***************************************************************************)
(* Certificates.  A file at a certificate path is absent, or holds text    *)
(* that does not parse, a bare public key, or a certificate with its       *)
(* validity window, the key it was issued over and the role that signed.   *)
(***************************************************************************)
NoFile == [kind |-> "absent"]
Garbage == [kind |-> "garbage"]
PubKey(k) == [kind |-> "pubkey", key |-> k]
Cert(va, vb, k, r) == [kind |-> "cert", va |-> va, vb |-> vb, key |-> k, role |-> r]

\* the validity test of Signer.IsCertificateValid on a parsed certificate
WindowValid(cert, t) ==
  IF cert.vb # 0 /\ t >= cert.vb THEN FALSE
  ELSE IF cert.va # 0 /\ t < cert.va THEN FALSE
  ELSE IF cert.vb # 0
       THEN ~ (SecondsToDuration(SubU64(cert.vb, t)) < FiveMinutes)
       ELSE TRUE

IsCertificateValid(file, t) ==
  IF file.kind = "absent" THEN FALSE
  ELSE IF file.kind = "garbage" THEN FALSE
  ELSE IF file.kind # "cert" THEN FALSE
  ELSE WindowValid(file, t)

(***************************************************************************)
(* Configuration (pkg/types, internal/config).                             *)
(***************************************************************************)
Identities == {"alice", "bob"}

\* AuthMethod.IsValid
IsValid(m) == m \in {"token", "userpass", "ldap", "oidc"}

\* the leading home-directory marker of validateConfig
ExpandPrivateKey(p) == IF Head(p) = "~" THEN Join(Home, Tail(p)) ELSE p

\* a variant of the validation without the test of the OIDC role
validateConfigNoOIDC(c) ==
  IF c.address = "" THEN "vault.address is required"
  ELSE IF ~ IsValid(c.authMethod) THEN "invalid auth method"
  ELSE IF c.keyDirectory = <<>> THEN "ssh.key_directory is required"
  ELSE IF c.certTTL <= 0 THEN "ssh.certificate_ttl must be greater than 0"
  ELSE IF \E u \in DOMAIN c.users : c.users[u].privateKey = <<>>
       THEN "private_key is required"
  ELSE "ok"

\* validateConfig: the first complaint, or "ok"
validateConfig(c) ==
  IF c.address = "" THEN "vault.address is required"
  ELSE IF ~ IsValid(c.authMethod) THEN "invalid auth method"
  ELSE IF c.authMethod = "oidc" /\ c.oidcRole = "" THEN "vault.oidc.role is required"
  ELSE IF c.keyDirectory = <<>> THEN "ssh.key_directory is required"
  ELSE IF c.certTTL <= 0 THEN "ssh.certificate_ttl must be greater than 0"
  ELSE IF \E u \in DOMAIN c.users : c.users[u].privateKey = <<>>
       THEN "private_key is required"
  ELSE "ok"

\* the configuration LoadConfig hands out: private keys with the marker expanded
LoadConfig(c) ==
  [c EXCEPT !.users =
     [u \in DOMAIN c.users |->
        [c.users[u] EXCEPT !.privateKey = ExpandPrivateKey(c.users[u].privateKey)]]]

VARIABLES
  pc,         \* where the root command is
  cfg,        \* the configuration: as on disk, then as LoadConfig returned it
  args,       \* positional arguments: a target (a sequence of chunks), then command words
  osArgs,     \* the command line after the program name, word by word
  flags,      \* the flags cobra parsed out of the command line
  address,    \* the address the Vault client sends its requests to
  procs,      \* invocations running side by side at the certificate stage
  configFile, \* the configuration file as `vssh init` finds and leaves it
  logs,       \* the records handed to the logger, at every level, in order
  sshOptions, \* the SSHOptions rootCmd.Run hands to Connect
  command,    \* the command words rootCmd.Run hands to Connect
  env,        \* [user, token, addr]: USER, VAULT_TOKEN and VAULT_ADDR of the environment
  now,        \* time.Now().Unix()
  token,      \* the token the Vault client holds
  tokenFile,  \* the token file: NoFile or [text, mode]
  fs,         \* the key directory: path string -> file content
  trace,      \* what the process did towards the outside, in order
  target,     \* the parsed target, [user, host]
  certPath,   \* the path EnsureSSHCertificate is working on / returned
  seen,       \* certData: what IsCertificateValid read at the certificate path
  signed,     \* the blob SignSSHKey returned, until it is written
  child,      \* the ssh child: "none", "running", "exited", "failed"
  exitCode,   \* the exit code of the process, -1 while it runs
  runs        \* the invocations before this one: what each left saved

vars ==
  <<pc, cfg, args, osArgs, flags, address, procs, configFile, logs, sshOptions, command,
    env, now, token, tokenFile, fs, trace, target, certPath,
    seen, signed, child, exitCode, runs>>

Read(files, p) == IF p \in DOMAIN files THEN files[p] ELSE NoFile

\* a variant of the existence test that finds every file
NotExistNever(files, p) == FALSE

\* os.Stat(p) answering os.IsNotExist
NotExist(files, p) == Read(files, p) = NoFile

Write(files, p, content) ==
  [q \in DOMAIN files \cup {p} |-> IF q = p THEN content ELSE files[q]]

\* a variant of the fatal exit that starts the command over
FatalStartsOver(events) ==
  /\ trace' = trace
  /\ pc' = "start"
  /\ UNCHANGED exitCode

\* logger.Fatalf: the message is logged and the process exits with status 1
Fatal(events) ==
  /\ trace' = trace \o events \o <<[op |-> "fatal"]>>
  /\ pc' = "exit"
  /\ exitCode' = 1

\* a Go panic: the runtime prints the trace and exits with status 2
Panic == [op |-> "panic"]
Crash(events) ==
  /\ trace' = trace \o events
  /\ pc' = "exit"
  /\ exitCode' = 2

Prompt(what) == [op |-> "prompt", what |-> what]
\* what came back from the terminal for a prompt
Answer(in) == [op |-> "answer", ok |-> in.ok, text |-> in.text]
\* the error a function returned
Err(msg) == [op |-> "error", msg |-> msg]
Returned(fn, ok) == [op |-> "return", fn |-> fn, ok |-> ok]

(***************************************************************************)
(* The token file (Client.LoadTokenFromFile, Client.SaveTokenToFile).      *)
(***************************************************************************)
\* LoadTokenFromFile: [ok, token]
LoadTokenFromFile(c, file) ==
  IF c.tokenPath = <<>> THEN [ok |-> FALSE, token |-> ""]
  ELSE IF file = NoFile THEN [ok |-> FALSE, token |-> ""]
  ELSE IF TrimSpace(file.text) = "" THEN [ok |-> FALSE, token |-> ""]
  ELSE [ok |-> TRUE, token |-> TrimSpace(file.text)]

SaveOutcomes == {"ok", "mkdir fails", "open fails", "write fails"}

\* os.WriteFile(path, data, perm): perm is used only when the file is created
WriteFile(file, text, perm) ==
  [text |-> text, mode |-> IF file = NoFile THEN perm ELSE file.mode]

\* a variant of the save that reports success and leaves the file empty
SaveTokenToFileEmpty(tok, c, file, outcome) ==
  IF tok = "" THEN [ok |-> FALSE, file |-> file]
  ELSE IF c.tokenPath = <<>> THEN [ok |-> FALSE, file |-> file]
  ELSE IF outcome # "ok" THEN [ok |-> FALSE, file |-> file]
  ELSE [ok |-> TRUE, file |-> WriteFile(file, <<>>, 600)]

\* SaveTokenToFile: [ok, file]; the outcome is the file system's answer
SaveTokenToFile(tok, c, file, outcome) ==
  IF tok = "" THEN [ok |-> FALSE, file |-> file]
  ELSE IF c.tokenPath = <<>> THEN [ok |-> FALSE, file |-> file]
  ELSE IF outcome = "mkdir fails" THEN [ok |-> FALSE, file |-> file]
  ELSE IF outcome = "open fails" THEN [ok |-> FALSE, file |-> file]
  ELSE IF outcome = "write fails"
       THEN [ok |-> FALSE, file |-> WriteFile(file, <<>>, 600)]
  ELSE [ok |-> TRUE, file |-> WriteFile(file, Bytes(tok), 600)]

(***************************************************************************)
(* What the operator types and what Vault answers.                         *)
(***************************************************************************)
ReadErr == [ok |-> FALSE, text |-> <<>>]
Typed(t) == [ok |-> TRUE, text |-> t]

SecretInputs ==
  {ReadErr, Typed(<<>>), Typed(<<" ">>), Typed(<<"tok3600">>),
   Typed(<<" ", "tok300", "\n">>), Typed(<<"tok299">>), Typed(<<"tok403">>),
   Typed(<<"tokNil">>)}

NameInputs == {ReadErr, Typed(<<" ", "\n">>), Typed(<<"carol", "\n">>)}

PasswordInputs == {ReadErr, Typed(<<" ">>), Typed(<<"pw">>)}

CodeInputs == {ReadErr, Typed(<<"\n">>), Typed(<<"code7", "\n">>)}

\* Logical().Write to a login path: an error, a secret without auth, or auth
LoginResponses ==
  {[kind |-> "err"], [kind |-> "noauth"]}
    \cup {[kind |-> "auth", clientToken |-> t] : t \in {"tok3600", "tok299"}}

\* Logical().Write to oidc/auth_url
\* (Vault answers an unknown role with an auth_url that is the empty string)
AuthURLResponses ==
  {[kind |-> "err"], [kind |-> "nodata"], [kind |-> "nourl"],
   [kind |-> "url", url |-> "https://idp.example/authorize", state |-> "st1"],
   [kind |-> "url", url |-> "", state |-> ""]}

Login(mount, username, password, tok) ==
  [op |-> "login", path |-> <<"auth", mount, "login", username>>,
   password |-> password, tok |-> tok]

(***************************************************************************)
(* What is handed to the logger (logrus, written to stderr).  A record is  *)
(* its level, its format and the values the format is filled with.        *)
(***************************************************************************)
Log(level, msg, vals) == [level |-> level, msg |-> msg, vals |-> vals]
Debugf(msg, vals) == Log("debug", msg, vals)
Infof(msg, vals) == Log("info", msg, vals)
Fatalf(msg, vals) == Log("fatal", msg, vals)

\* the token path with the home-directory marker expanded
TokenPathStr(c) ==
  PathStr(IF c.tokenPath # <<>> /\ Head(c.tokenPath) = "~"
          THEN Join(Home, Tail(c.tokenPath)) ELSE c.tokenPath)

\* the records of one IsTokenValid call
IsTokenValidLogs(tok) ==
  IF tok = "" THEN <<Debugf("No token found", <<>>)>>
  ELSE LET resp == LookupSelf(tok) IN
       CASE resp.kind = "err" ->
              <<Debugf("Token lookup failed: %v", <<"auth/token/lookup-self", "permission denied">>)>>
         [] resp.kind = "nosecret" -> <<>>
         [] resp.kind = "nodata" -> <<Debugf("Token lookup returned no data", <<>>)>>
         [] resp.kind = "nottl" -> <<Debugf("Token TTL not found in response", <<>>)>>
         [] resp.kind = "badtype" -> <<Debugf("Unexpected TTL type: %T", <<"string">>)>>
         [] OTHER ->
              IF SecondsToDuration(resp.ttl) < FiveMinutes
              THEN <<Debugf("Token TTL too low: %v", <<ToString(resp.ttl)>>)>>
              ELSE <<Debugf("Token is valid with TTL: %v", <<ToString(resp.ttl)>>)>>

\* the record of LoadTokenFromFile, or of EnsureAuthenticated about its error
LoadTokenLogs(c, file) ==
  IF c.tokenPath = <<>>
  THEN <<Debugf("Could not load token from file: %v", <<"token path not configured">>)>>
  ELSE IF file = NoFile
  THEN <<Debugf("Could not load token from file: %v",
                <<"error reading token file", TokenPathStr(c)>>)>>
  ELSE IF TrimSpace(file.text) = ""
  THEN <<Debugf("Could not load token from file: %v", <<"token file is empty">>)>>
  ELSE <<Debugf("Loaded token from %s", <<TokenPathStr(c)>>)>>

\* a variant of the save record that names the token it saved
SaveTokenLogsWithToken(tok, c, file, outcome) ==
  IF SaveTokenToFile(tok, c, file, outcome).ok
  THEN <<Debugf("Saved token to %s", <<TokenPathStr(c), tok>>)>>
  ELSE <<Log("warning", "Failed to save token to file: %v", <<outcome>>)>>

\* the record of SaveTokenToFile, or of EnsureAuthenticated about its error
SaveTokenLogs(tok, c, file, outcome) ==
  IF SaveTokenToFile(tok, c, file, outcome).ok
  THEN <<Debugf("Saved token to %s", <<TokenPathStr(c)>>)>>
  ELSE <<Log("warning", "Failed to save token to file: %v",
             <<IF tok = "" THEN "no token to save"
               ELSE IF c.tokenPath = <<>> THEN "token path not configured"
               ELSE outcome>>)>>

\* the error of a failed flow as Fatalf prints it: the message and, where a
\* backend call failed, the request path and the backend's complaint
BackendFailures ==
  {"userpass authentication failed", "LDAP authentication failed",
   "OIDC authentication failed", "failed to get OIDC auth URL"}
AuthErrorVals(ev) ==
  LET e == ev[Len(ev)]
      calls == {i \in 1..Len(ev) : ev[i].op \in {"login", "auth_url", "callback"}}
      last == CHOOSE i \in calls : \A j \in calls : j <= i
  IN IF e.msg \in BackendFailures
     THEN <<"authentication failed", e.msg, PathStr(ev[last].path), "permission denied">>
     ELSE <<"authentication failed", e.msg>>

\* the records of IsCertificateValid
IsCertificateValidLogs(file, path, t) ==
  IF file.kind = "absent" THEN <<Debugf("Certificate file not found: %s", <<path>>)>>
  ELSE IF file.kind = "garbage"
  THEN <<Debugf("Failed to parse certificate: %v", <<"ssh: no key found">>)>>
  ELSE IF file.kind # "cert" THEN <<Debugf("Public key is not a certificate", <<>>)>>
  ELSE IF file.vb # 0 /\ t >= file.vb
  THEN <<Debugf("Certificate expired at %d, current time %d",
                <<ToString(file.vb), ToString(t)>>)>>
  ELSE IF file.va # 0 /\ t < file.va
  THEN <<Debugf("Certificate not yet valid until %d, current time %d",
                <<ToString(file.va), ToString(t)>>)>>
  ELSE IF file.vb # 0
  THEN IF SecondsToDuration(SubU64(file.vb, t)) < FiveMinutes
       THEN <<Debugf("Certificate expires soon: %v remaining",
                     <<ToString(SecondsToDuration(SubU64(file.vb, t)))>>)>>
       ELSE <<Debugf("Certificate is valid with %v remaining",
                     <<ToString(SecondsToDuration(SubU64(file.vb, t)))>>)>>
  ELSE <<>>

(***************************************************************************)
(* The authentication flows (internal/auth).  Each yields [ok, token, ev]: *)
(* whether it succeeded, the token the client then holds, and the prompts  *)
(* and backend calls it made, in order.                                    *)
(***************************************************************************)
Flow(ok, tok, ev) == [ok |-> ok, token |-> tok, ev |-> ev]

\* a variant of the token flow that asks a second time after an empty answer
authenticateTokenAgain(tok0, secret) ==
  LET ev1 == <<Prompt("token"), Answer(secret)>>
      t == TrimSpace(secret.text)
      ev2 == ev1 \o LookupCalls(t)
  IN IF ~ secret.ok THEN Flow(FALSE, tok0, ev1 \o <<Err("error reading token")>>)
     ELSE IF t = ""
     THEN Flow(FALSE, tok0, ev1 \o ev1 \o <<Err("token cannot be empty")>>)
     ELSE IF IsTokenValidPanics(t) THEN Flow(FALSE, t, ev2 \o <<Panic>>)
     ELSE IF ~ IsTokenValid(t)
     THEN Flow(FALSE, t, ev2 \o <<Err("invalid token provided")>>)
     ELSE Flow(TRUE, t, ev2)

\* a variant of the token flow that installs the secret as it was typed
authenticateTokenUntrimmed(tok0, secret) ==
  LET ev1 == <<Prompt("token"), Answer(secret)>>
      t == Flatten(secret.text)
      ev2 == ev1 \o LookupCalls(t)
  IN IF ~ secret.ok THEN Flow(FALSE, tok0, ev1 \o <<Err("error reading token")>>)
     ELSE IF t = "" THEN Flow(FALSE, tok0, ev1 \o <<Err("token cannot be empty")>>)
     ELSE IF IsTokenValidPanics(t) THEN Flow(FALSE, t, ev2 \o <<Panic>>)
     ELSE IF ~ IsTokenValid(t)
     THEN Flow(FALSE, t, ev2 \o <<Err("invalid token provided")>>)
     ELSE Flow(TRUE, t, ev2)

\* a variant of the token flow that takes the typed token without testing it
authenticateTokenUnverified(tok0, secret) ==
  LET ev1 == <<Prompt("token"), Answer(secret)>>
      t == TrimSpace(secret.text)
  IN IF ~ secret.ok THEN Flow(FALSE, tok0, ev1 \o <<Err("error reading token")>>)
     ELSE IF t = "" THEN Flow(FALSE, tok0, ev1 \o <<Err("token cannot be empty")>>)
     ELSE Flow(TRUE, t, ev1)

authenticateToken(tok0, secret) ==
  LET ev1 == <<Prompt("token"), Answer(secret)>>
      t == TrimSpace(secret.text)
      ev2 == ev1 \o LookupCalls(t)
  IN IF ~ secret.ok THEN Flow(FALSE, tok0, ev1 \o <<Err("error reading token")>>)
     ELSE IF t = "" THEN Flow(FALSE, tok0, ev1 \o <<Err("token cannot be empty")>>)
     ELSE IF IsTokenValidPanics(t) THEN Flow(FALSE, t, ev2 \o <<Panic>>)
     ELSE IF ~ IsTokenValid(t)
     THEN Flow(FALSE, t, ev2 \o <<Err("invalid token provided")>>)
     ELSE Flow(TRUE, t, ev2)

\* a variant of the userpass flow without the test for an empty password
authenticateUserPassAnyPassword(c, tok0, name, password, resp) ==
  LET asked == c.userpassUser = ""
      ev1 == IF asked THEN <<Prompt("Username"), Answer(name)>> ELSE <<>>
      username == IF asked THEN TrimSpace(name.text) ELSE c.userpassUser
      ev2 == ev1 \o <<Prompt("Password"), Answer(password)>>
      pw == TrimSpace(password.text)
      mount == IF c.userpassMount = "" THEN "userpass" ELSE c.userpassMount
      ev3 == ev2 \o <<Login(mount, username, pw, tok0)>>
  IN IF asked /\ ~ name.ok THEN Flow(FALSE, tok0, ev1 \o <<Err("error reading username")>>)
     ELSE IF username = ""
     THEN Flow(FALSE, tok0, ev1 \o <<Err("username cannot be empty")>>)
     ELSE IF ~ password.ok
     THEN Flow(FALSE, tok0, ev2 \o <<Err("error reading password")>>)
     ELSE IF resp.kind = "err"
     THEN Flow(FALSE, tok0, ev3 \o <<Err("userpass authentication failed")>>)
     ELSE IF resp.kind = "noauth"
     THEN Flow(FALSE, tok0, ev3 \o <<Err("no authentication data returned")>>)
     ELSE Flow(TRUE, resp.clientToken, ev3)

authenticateUserPass(c, tok0, name, password, resp) ==
  LET asked == c.userpassUser = ""
      ev1 == IF asked THEN <<Prompt("Username"), Answer(name)>> ELSE <<>>
      username == IF asked THEN TrimSpace(name.text) ELSE c.userpassUser
      ev2 == ev1 \o <<Prompt("Password"), Answer(password)>>
      pw == TrimSpace(password.text)
      mount == IF c.userpassMount = "" THEN "userpass" ELSE c.userpassMount
      ev3 == ev2 \o <<Login(mount, username, pw, tok0)>>
  IN IF asked /\ ~ name.ok THEN Flow(FALSE, tok0, ev1 \o <<Err("error reading username")>>)
     ELSE IF username = ""
     THEN Flow(FALSE, tok0, ev1 \o <<Err("username cannot be empty")>>)
     ELSE IF ~ password.ok
     THEN Flow(FALSE, tok0, ev2 \o <<Err("error reading password")>>)
     ELSE IF pw = "" THEN Flow(FALSE, tok0, ev2 \o <<Err("password cannot be empty")>>)
     ELSE IF resp.kind = "err"
     THEN Flow(FALSE, tok0, ev3 \o <<Err("userpass authentication failed")>>)
     ELSE IF resp.kind = "noauth"
     THEN Flow(FALSE, tok0, ev3 \o <<Err("no authentication data returned")>>)
     ELSE Flow(TRUE, resp.clientToken, ev3)

authenticateLDAP(c, tok0, name, password, resp) ==
  LET asked == c.ldapUser = ""
      ev1 == IF asked THEN <<Prompt("LDAP Username"), Answer(name)>> ELSE <<>>
      username == IF asked THEN TrimSpace(name.text) ELSE c.ldapUser
      ev2 == ev1 \o <<Prompt("LDAP Password"), Answer(password)>>
      pw == TrimSpace(password.text)
      mount == IF c.ldapMount = "" THEN "ldap" ELSE c.ldapMount
      ev3 == ev2 \o <<Login(mount, username, pw, tok0)>>
  IN IF asked /\ ~ name.ok THEN Flow(FALSE, tok0, ev1 \o <<Err("error reading username")>>)
     ELSE IF username = ""
     THEN Flow(FALSE, tok0, ev1 \o <<Err("username cannot be empty")>>)
     ELSE IF ~ password.ok
     THEN Flow(FALSE, tok0, ev2 \o <<Err("error reading password")>>)
     ELSE IF pw = "" THEN Flow(FALSE, tok0, ev2 \o <<Err("password cannot be empty")>>)
     ELSE IF resp.kind = "err"
     THEN Flow(FALSE, tok0, ev3 \o <<Err("LDAP authentication failed")>>)
     ELSE IF resp.kind = "noauth"
     THEN Flow(FALSE, tok0, ev3 \o <<Err("no authentication data returned")>>)
     ELSE Flow(TRUE, resp.clientToken, ev3)

authenticateOIDC(c, tok0, urlResp, code, resp) ==
  LET mount == IF c.oidcMount = "" THEN "oidc" ELSE c.oidcMount
      ev1 == <<[op |-> "auth_url", path |-> <<"auth", mount, "oidc", "auth_url">>,
                role |-> c.oidcRole, tok |-> tok0]>>
      ev2 == ev1 \o <<[op |-> "visit",
                       url |-> IF urlResp.kind = "url" THEN urlResp.url ELSE "",
                       state |-> IF urlResp.kind = "url" THEN urlResp.state ELSE ""],
                      Prompt("authorization code"), Answer(code)>>
      cd == TrimSpace(code.text)
      ev3 == ev2 \o <<[op |-> "callback",
                       path |-> <<"auth", mount, "oidc", "callback">>,
                       code |-> cd,
                       state |-> IF urlResp.kind = "url" THEN urlResp.state ELSE "",
                       tok |-> tok0]>>
  IN IF c.oidcRole = "" THEN Flow(FALSE, tok0, <<Err("OIDC role not configured")>>)
     ELSE IF urlResp.kind = "err"
     THEN Flow(FALSE, tok0, ev1 \o <<Err("failed to get OIDC auth URL")>>)
     ELSE IF urlResp.kind = "nodata"
     THEN Flow(FALSE, tok0, ev1 \o <<Err("no OIDC auth URL returned")>>)
     ELSE IF urlResp.kind = "nourl"
     THEN Flow(FALSE, tok0, ev1 \o <<Err("invalid auth URL returned")>>)
     ELSE IF ~ code.ok
     THEN Flow(FALSE, tok0, ev2 \o <<Err("error reading authorization code")>>)
     ELSE IF cd = ""
     THEN Flow(FALSE, tok0, ev2 \o <<Err("authorization code cannot be empty")>>)
     ELSE IF resp.kind = "err"
     THEN Flow(FALSE, tok0, ev3 \o <<Err("OIDC authentication failed")>>)
     ELSE IF resp.kind = "noauth"
     THEN Flow(FALSE, tok0, ev3 \o <<Err("no authentication data returned")>>)
     ELSE Flow(TRUE, resp.clientToken, ev3)

\* promptForAuthMethod: [ok, method, ev]
ChoiceInputs ==
  {ReadErr, Typed(<<"1", "\n">>), Typed(<<"2", "\n">>), Typed(<<"3", "\n">>),
   Typed(<<"4", "\n">>), Typed(<<"9", "\n">>)}

promptForAuthMethod(choice) ==
  LET ch == TrimSpace(choice.text)
      m == CASE ch = "1" -> "token"
             [] ch = "2" -> "userpass"
             [] ch = "3" -> "ldap"
             [] ch = "4" -> "oidc"
             [] OTHER -> ""
  IN [ok |-> choice.ok /\ m # "", method |-> IF choice.ok THEN m ELSE "",
      ev |-> <<Prompt("method"), Answer(choice)>>
               \o (IF ~ choice.ok THEN <<Err("error reading input")>>
                   ELSE IF m = "" THEN <<Err("invalid choice")>> ELSE <<>>)]

\* the method EnsureAuthenticated dispatches on
SelectMethod(c, choice) ==
  IF c.authMethod = "" \/ ~ IsValid(c.authMethod)
  THEN promptForAuthMethod(choice)
  ELSE [ok |-> TRUE, method |-> c.authMethod, ev |-> <<>>]

\* what the flow of a method reads from the terminal and from Vault
FlowInputs(method) ==
  CASE method = "token" -> [secret : SecretInputs]
    [] method \in {"userpass", "ldap"} ->
         [name : NameInputs, password : PasswordInputs, resp : LoginResponses]
    [] method = "oidc" ->
         [url : AuthURLResponses, code : CodeInputs, resp : LoginResponses]
    [] OTHER -> {[none |-> TRUE]}

\* authenticate: the dispatch on the method
authenticate(method, c, tok0, in) ==
  CASE method = "token" -> authenticateToken(tok0, in.secret)
    [] method = "userpass" -> authenticateUserPass(c, tok0, in.name, in.password, in.resp)
    [] method = "ldap" -> authenticateLDAP(c, tok0, in.name, in.password, in.resp)
    [] method = "oidc" -> authenticateOIDC(c, tok0, in.url, in.code, in.resp)
    [] OTHER -> Flow(FALSE, tok0, <<Err("unsupported authentication method")>>)

\* the token the client holds once EnsureAuthenticated has tried the token file
AfterLoad(c, file, tok0) ==
  LET l == LoadTokenFromFile(c, file) IN IF l.ok THEN l.token ELSE tok0

(***************************************************************************)
(* Authenticator.EnsureAuthenticated, whole.                               *)
(***************************************************************************)
EnsureAuthenticated ==
  /\ pc = "auth"
  /\ LET tok1 == AfterLoad(cfg, tokenFile, token)
         ev1 == LookupCalls(tok1)
         log0 == LoadTokenLogs(cfg, tokenFile) \o IsTokenValidLogs(tok1)
         log1 == log0 \o <<Infof("No valid token found, authentication required", <<>>)>>
     IN IF IsTokenValidPanics(tok1)
        THEN /\ token' = tok1
             /\ Crash(ev1 \o <<Panic>>)
             /\ logs' = logs \o log0
             /\ UNCHANGED tokenFile
        ELSE IF IsTokenValid(tok1)
        THEN /\ token' = tok1
             /\ trace' = trace \o ev1 \o <<Returned("EnsureAuthenticated", TRUE)>>
             /\ logs' = logs \o log0 \o <<Debugf("Using existing valid token", <<>>)>>
             /\ pc' = "target"
             /\ UNCHANGED <<tokenFile, exitCode>>
        ELSE \E choice \in
                  IF cfg.authMethod = "" \/ ~ IsValid(cfg.authMethod)
                  THEN ChoiceInputs ELSE {ReadErr} :
               LET sel == SelectMethod(cfg, choice) IN
               IF ~ sel.ok
               THEN /\ token' = tok1
                    /\ Fatal(ev1 \o sel.ev)
                    /\ logs' = logs \o log1 \o
                         <<Fatalf("Authentication failed: %v",
                                  <<"failed to get authentication method",
                                    sel.ev[Len(sel.ev)].msg>>
                                    \o (IF choice.ok THEN <<TrimSpace(choice.text)>>
                                        ELSE <<>>))>>
                    /\ UNCHANGED tokenFile
               ELSE \E in \in FlowInputs(sel.method) :
                      LET r == authenticate(sel.method, cfg, tok1, in)
                          disp == <<[op |-> "dispatch", method |-> sel.method]>>
                          log2 == log1 \o
                            (IF \E i \in 1..Len(r.ev) : r.ev[i].op = "lookup"
                             THEN IsTokenValidLogs(r.token) ELSE <<>>)
                      IN
                      IF r.ev # <<>> /\ r.ev[Len(r.ev)] = Panic
                      THEN /\ token' = r.token
                           /\ Crash(ev1 \o sel.ev \o disp \o r.ev)
                           /\ logs' = logs \o log2
                           /\ UNCHANGED tokenFile
                      ELSE IF ~ r.ok
                      THEN /\ token' = r.token
                           /\ Fatal(ev1 \o sel.ev \o disp \o r.ev)
                           /\ logs' = logs \o log2 \o
                                <<Fatalf("Authentication failed: %v", AuthErrorVals(r.ev))>>
                           /\ UNCHANGED tokenFile
                      ELSE \E outcome \in SaveOutcomes :
                             LET sv == SaveTokenToFile(r.token, cfg, tokenFile, outcome) IN
                             /\ token' = r.token
                             /\ tokenFile' = sv.file
                             /\ trace' = trace \o ev1 \o sel.ev \o disp \o r.ev
                                  \o (IF sv.ok
                                      THEN <<[op |-> "save",
                                              created |-> tokenFile = NoFile]>>
                                      ELSE <<[op |-> "warn"]>>)
                                  \o <<Returned("EnsureAuthenticated", TRUE)>>
                             /\ logs' = logs \o log2
                                  \o SaveTokenLogs(r.token, cfg, tokenFile, outcome)
                                  \o <<Infof("Authentication successful", <<>>)>>
                             /\ pc' = "target"
                             /\ UNCHANGED exitCode
  /\ UNCHANGED <<cfg, args, osArgs, flags, procs, configFile, sshOptions, command, address,
                 env, now, fs, target, certPath, seen, signed, child, runs>>

(***************************************************************************)
(* The command line (cobra, cmd/root.go).  A word is a sequence of chunks; *)
(* Flatten gives its text.                                                 *)
(***************************************************************************)
NoFlags ==
  [port |-> "", identity |-> "", ipv4 |-> FALSE, ipv6 |-> FALSE,
   verbose |-> FALSE, debug |-> FALSE]

\* the flags the root command defines that take a value, and those that do not
ValueFlags == {"-p", "-i"}
BoolFlags == {"-4", "-6", "-v", "-d"}
\* the words of the model that begin with a dash
DashWords == ValueFlags \cup BoolFlags \cup {"--", "-la"}

SetFlag(fl, name, value) ==
  CASE name = "-p" -> [fl EXCEPT !.port = value]
    [] name = "-i" -> [fl EXCEPT !.identity = value]
    [] name = "-4" -> [fl EXCEPT !.ipv4 = TRUE]
    [] name = "-6" -> [fl EXCEPT !.ipv6 = TRUE]
    [] name = "-v" -> [fl EXCEPT !.verbose = TRUE]
    [] name = "-d" -> [fl EXCEPT !.debug = TRUE]
    [] OTHER -> fl

\* the positional arguments as rootCmd.Run sees them: the target keeps
\* its chunks, the words after it are plain text
Positional(ws) ==
  IF ws = <<>> THEN <<>>
  ELSE <<ws[1]>> \o [i \in 1..(Len(ws) - 1) |-> Flatten(ws[i + 1])]

\* the flag set's Parse over the whole command line (flags and positional
\* words may be interspersed; "--" ends the flags): [ok, flags, args]
RECURSIVE ParseWords(_, _, _)
ParseWords(ws, fl, pos) ==
  IF ws = <<>> THEN [ok |-> TRUE, flags |-> fl, args |-> Positional(pos)]
  ELSE LET w == Flatten(Head(ws)) IN
       IF w = "--" THEN [ok |-> TRUE, flags |-> fl, args |-> Positional(pos \o Tail(ws))]
       ELSE IF w \in ValueFlags
       THEN IF Len(ws) = 1 THEN [ok |-> FALSE, flags |-> fl, args |-> <<>>]
            ELSE ParseWords(Tail(Tail(ws)), SetFlag(fl, w, Flatten(ws[2])), pos)
       ELSE IF w \in BoolFlags THEN ParseWords(Tail(ws), SetFlag(fl, w, ""), pos)
       ELSE IF w \in DashWords THEN [ok |-> FALSE, flags |-> fl, args |-> <<>>]
       ELSE ParseWords(Tail(ws), fl, Append(pos, Head(ws)))

ParseFlags(ws) == ParseWords(ws, NoFlags, <<>>)

(***************************************************************************)
(* Targets and key paths (internal/ssh).                                   *)
(***************************************************************************)
\* strings.Split(target, "@"): the parts between the "@" chunks
RECURSIVE Split(_)
Split(s) ==
  IF \A i \in 1..Len(s) : s[i] # "@" THEN <<s>>
  ELSE LET i == CHOOSE k \in 1..Len(s) :
                  s[k] = "@" /\ \A j \in 1..(k - 1) : s[j] # "@"
       IN <<SubSeq(s, 1, i - 1)>> \o Split(SubSeq(s, i + 1, Len(s)))

\* ParseSSHTarget: [ok, user, host]
ParseSSHTarget(t, user) ==
  LET parts == Split(t)
      bad == [ok |-> FALSE, user |-> "", host |-> ""]
  IN IF Len(parts) = 2
     THEN IF Flatten(parts[1]) = "" \/ Flatten(parts[2]) = "" THEN bad
          ELSE [ok |-> TRUE, user |-> Flatten(parts[1]), host |-> Flatten(parts[2])]
     ELSE IF Len(parts) = 1
     THEN IF user = "" THEN bad
          ELSE IF Flatten(parts[1]) = "" THEN bad
          ELSE [ok |-> TRUE, user |-> user, host |-> Flatten(parts[1])]
     ELSE bad

\* Signer.GetPrivateKeyPath
GetPrivateKeyPath(c, username) ==
  IF username \in DOMAIN c.users THEN c.users[username].privateKey
  ELSE LET keyPath == Join(c.keyDirectory, <<"id_rsa">>)
       IN IF Head(keyPath) = "~" THEN Join(Home, Tail(keyPath)) ELSE keyPath

\* a variant of the client's key path that leaves the home marker in place
ClientGetPrivateKeyPathNoHome(c, username) ==
  IF username \in DOMAIN c.users THEN c.users[username].privateKey
  ELSE Join(c.keyDirectory, <<"id_rsa">>)

\* ssh Client.GetPrivateKeyPath
ClientGetPrivateKeyPath(c, username) ==
  IF username \in DOMAIN c.users THEN c.users[username].privateKey
  ELSE LET keyPath == Join(c.keyDirectory, <<"id_rsa">>)
       IN IF Head(keyPath) = "~" THEN Join(Home, Tail(keyPath)) ELSE keyPath

\* a variant of the certificate path with the home marker expanded
GetCertificatePathExpanded(c, username) ==
  LET p == Join(c.keyDirectory, <<"vault_signed_" \o username \o ".pub">>)
  IN IF Head(p) = "~" THEN Join(Home, Tail(p)) ELSE p

\* Signer.GetCertificatePath
GetCertificatePath(c, username) ==
  Join(c.keyDirectory, <<"vault_signed_" \o username \o ".pub">>)

\* privateKeyPath + ".pub"
PublicKeyPath(p) == SubSeq(p, 1, Len(p) - 1) \o <<p[Len(p)] \o ".pub">>

\* a variant of the role resolution without the global vault.role step
VaultRoleNoGlobal(c, username) ==
  IF username \in DOMAIN c.users /\ c.users[username].vaultRole # ""
  THEN c.users[username].vaultRole
  ELSE username

\* the role SignSSHKey puts in the request path
VaultRole(c, username) ==
  IF username \in DOMAIN c.users /\ c.users[username].vaultRole # ""
  THEN c.users[username].vaultRole
  ELSE IF c.role # "" THEN c.role
  ELSE username

\* a variant of the sign request sent without the session token
SignRequestNoToken(c, username, pubKeyData, tok) ==
  [op |-> "sign", path |-> <<c.signingEngine, "sign", VaultRole(c, username)>>,
   publicKey |-> pubKeyData, ttl |-> c.certTTL, tok |-> ""]

\* the sign request of SignSSHKey
SignRequest(c, username, pubKeyData, tok) ==
  [op |-> "sign", path |-> <<c.signingEngine, "sign", VaultRole(c, username)>>,
   publicKey |-> pubKeyData, ttl |-> c.certTTL, tok |-> tok]

(***************************************************************************)
(* Vault's SSH engine.  It signs for a live token and a real public key;   *)
(* the certificate is valid from a little before now for the time asked,   *)
(* or for the role's own maximum when that is shorter.                     *)
(***************************************************************************)
NotBeforeSkew == 30
RoleMaxTTLs == {120, 3600}

Min(a, b) == IF a < b THEN a ELSE b

TokenAlive(tok) == tok # "" /\ LookupSelf(tok).kind = "ttl"

SignResponses(req, t) ==
  {[kind |-> "err"]} \cup
  IF TokenAlive(req.tok) /\ req.publicKey.kind = "pubkey"
  THEN {[kind |-> "nodata"], [kind |-> "nokey"]} \cup
       {[kind |-> "ok",
         blob |-> Cert(SubU64(t, NotBeforeSkew), (t + Min(req.ttl, cap)) % U64,
                       req.publicKey.key, req.path[3])] : cap \in RoleMaxTTLs}
  ELSE {}

\* a variant of SignSSHKey that takes an answer without signed_key for a key
SignSSHKeyUnchecked(pubKeyData, resp) ==
  IF pubKeyData = NoFile THEN [ok |-> FALSE, cert |-> NoFile]
  ELSE IF resp.kind = "err" THEN [ok |-> FALSE, cert |-> NoFile]
  ELSE IF resp.kind \in {"nodata", "nokey"} THEN [ok |-> TRUE, cert |-> Garbage]
  ELSE [ok |-> TRUE, cert |-> resp.blob]

\* SignSSHKey: [ok, cert] for the public key read and the answer of Vault
SignSSHKey(pubKeyData, resp) ==
  IF pubKeyData = NoFile THEN [ok |-> FALSE, cert |-> NoFile]
  ELSE IF resp.kind = "err" THEN [ok |-> FALSE, cert |-> NoFile]
  ELSE IF resp.kind = "nodata" THEN [ok |-> FALSE, cert |-> NoFile]
  ELSE IF resp.kind = "nokey" THEN [ok |-> FALSE, cert |-> NoFile]
  ELSE [ok |-> TRUE, cert |-> resp.blob]

(***************************************************************************)
(* The ssh child (Client.Connect).                                         *)
(***************************************************************************)
\* &SSHOptions{}: every option unset
NoOptions ==
  [port |-> "", identityFile |-> "", ipv4 |-> FALSE, ipv6 |-> FALSE,
   verbose |-> FALSE, debug |-> FALSE, extraArgs |-> <<>>]

\* ParseSSHArgs: the options (all unset) and the command words
ParseSSHArgs(a) ==
  [options |-> NoOptions,
   command |-> IF Len(a) > 1 THEN SubSeq(a, 2, Len(a)) ELSE <<>>]

\* a variant of the classification that takes a launch failure for an exit
ConnectErrorNoLaunch(run) ==
  IF run.kind = "exited" /\ run.status = 0 THEN [kind |-> "nil"]
  ELSE [kind |-> "exit", code |-> IF run.kind = "exited" THEN run.status ELSE -1]

\* the error Connect returns for the way cmd.Run() ended: nil, the exit code
\* of an *exec.ExitError, or the error of a child that could not be started
ConnectError(run) ==
  IF run.kind = "exited" /\ run.status = 0 THEN [kind |-> "nil"]
  ELSE IF run.kind = "exited" THEN [kind |-> "exit", code |-> run.status]
  ELSE [kind |-> "launch"]

\* a variant of the argument list that leaves the certificate out
ConnectArgsNoCertificate(tgt, cert, o, cmd) ==
  (IF o.port # "" THEN <<"-p", o.port>> ELSE <<>>)
  \o (IF o.identityFile # "" THEN <<"-i", o.identityFile>> ELSE <<>>)
  \o <<"-o", "PreferredAuthentications=publickey">>
  \o <<"-o", "PubkeyAuthentication=yes">>
  \o o.extraArgs
  \o <<tgt.user \o "@" \o tgt.host>>
  \o cmd

\* a variant of the argument list that puts the command before the target
ConnectArgsTargetLast(tgt, cert, o, cmd) ==
  (IF o.port # "" THEN <<"-p", o.port>> ELSE <<>>)
  \o (IF cert # "" THEN <<"-o", "CertificateFile=" \o cert>> ELSE <<>>)
  \o (IF o.identityFile # "" THEN <<"-i", o.identityFile>> ELSE <<>>)
  \o (IF o.ipv4 THEN <<"-4">> ELSE <<>>)
  \o (IF o.ipv6 THEN <<"-6">> ELSE <<>>)
  \o (IF o.verbose THEN <<"-v">> ELSE <<>>)
  \o (IF o.debug THEN <<"-vvv">> ELSE <<>>)
  \o <<"-o", "PreferredAuthentications=publickey">>
  \o <<"-o", "PubkeyAuthentication=yes">>
  \o o.extraArgs
  \o cmd
  \o <<tgt.user \o "@" \o tgt.host>>

\* the argument list Connect hands to exec.Command("ssh", ...)
ConnectArgs(tgt, cert, o, cmd) ==
  (IF o.port # "" THEN <<"-p", o.port>> ELSE <<>>)
  \o (IF cert # "" THEN <<"-o", "CertificateFile=" \o cert>> ELSE <<>>)
  \o (IF o.identityFile # "" THEN <<"-i", o.identityFile>> ELSE <<>>)
  \o (IF o.ipv4 THEN <<"-4">> ELSE <<>>)
  \o (IF o.ipv6 THEN <<"-6">> ELSE <<>>)
  \o (IF o.verbose THEN <<"-v">> ELSE <<>>)
  \o (IF o.debug THEN <<"-vvv">> ELSE <<>>)
  \o <<"-o", "PreferredAuthentications=publickey">>
  \o <<"-o", "PubkeyAuthentication=yes">>
  \o o.extraArgs
  \o <<tgt.user \o "@" \o tgt.host>>
  \o cmd

\* how cmd.Run() can end: the child exits with a status, dies of a signal
\* (ExitCode() is then -1), or never starts
ChildStatuses == {0, 1, 2, 255, -1}

\* api.DefaultConfig(): the library's address, or VAULT_ADDR where it is set
DefaultAddress == "https://127.0.0.1:8200"
DefaultConfig(e) == [address |-> IF e.addr # "" THEN e.addr ELSE DefaultAddress]

\* NewClient: the address of the configuration replaces the one of
\* DefaultConfig; api.NewClient takes VAULT_TOKEN from the environment
NewClient(c, e) ==
  [address |-> [DefaultConfig(e) EXCEPT !.address = c.address].address,
   token |-> e.token]

(***************************************************************************)
(* The root command, step by step.                                         *)
(***************************************************************************)
\* Execute and rootCmd.Run up to the Vault client: the flags, help,
\* LoadConfig, NewClient
Start ==
  /\ pc = "start"
  /\ IF ~ ParseFlags(osArgs).ok
     THEN /\ pc' = "exit"
          /\ exitCode' = 1
          /\ trace' = trace \o <<[op |-> "usage"]>>
          /\ UNCHANGED <<cfg, token, address, logs>>
     ELSE IF args = <<>>
     THEN /\ pc' = "exit"
          /\ exitCode' = 0
          /\ trace' = trace \o <<[op |-> "help"]>>
          /\ UNCHANGED <<cfg, token, address, logs>>
     ELSE IF validateConfig(cfg) # "ok"
     THEN /\ Fatal(<<>>)
          /\ logs' = logs \o
               <<Debugf("Starting vssh", <<>>),
                 Fatalf("Failed to load configuration: %v",
                        <<"config validation failed", validateConfig(cfg)>>
                          \o (IF validateConfig(cfg) = "invalid auth method"
                              THEN <<cfg.authMethod>> ELSE <<>>))>>
          /\ UNCHANGED <<cfg, token, address>>
     ELSE /\ cfg' = LoadConfig(cfg)
          /\ logs' = logs \o
               <<Debugf("Starting vssh", <<>>),
                 Debugf("Configuration loaded successfully", <<>>),
                 Debugf("Vault address: %s", <<cfg.address>>),
                 Debugf("Auth method: %s", <<cfg.authMethod>>)>>
          /\ token' = NewClient(LoadConfig(cfg), env).token
          /\ address' = NewClient(LoadConfig(cfg), env).address
          /\ pc' = "auth"
          /\ UNCHANGED <<trace, exitCode>>
  /\ UNCHANGED <<args, osArgs, flags, procs, configFile, sshOptions, command, env, now,
                 tokenFile, fs, target, certPath, seen, signed, child, runs>>

\* ssh.ParseSSHTarget(args[0])
ParseTarget ==
  /\ pc = "target"
  /\ LET t == ParseSSHTarget(args[1], env.user) IN
     IF ~ t.ok
     THEN /\ Fatal(<<>>)
          /\ logs' = logs \o
               <<Fatalf("Invalid SSH target: %v",
                        IF Len(Split(args[1])) > 2
                        THEN <<"invalid SSH target format: %s", Flatten(args[1])>>
                        ELSE <<"username or hostname missing">>)>>
          /\ UNCHANGED target
     ELSE /\ target' = [user |-> t.user, host |-> t.host]
          /\ logs' = logs \o
               <<Debugf("Parsed SSH target - Username: %s, Hostname: %s", <<t.user, t.host>>)>>
          /\ pc' = "cert"
          /\ UNCHANGED <<trace, exitCode>>
  /\ UNCHANGED <<cfg, args, osArgs, flags, procs, configFile, sshOptions, command, address,
                 env, now, token, tokenFile, fs, certPath, seen, signed, child, runs>>

\* EnsureSSHCertificate up to the sign request: the gate and the key files
CertCheck ==
  /\ pc = "cert"
  /\ LET path == PathStr(GetCertificatePath(cfg, target.user))
         privateKeyPath == GetPrivateKeyPath(cfg, target.user)
         publicKeyPath == PublicKeyPath(privateKeyPath)
         log0 == IsCertificateValidLogs(Read(fs, path), path, now)
         log1 == log0 \o
                   <<Infof("Generating new SSH certificate for user: %s", <<target.user>>)>>
         notFound(what, p) ==
           Fatalf("Failed to ensure SSH certificate: %v", <<what, PathStr(p)>>)
     IN /\ certPath' = path
        /\ seen' = Read(fs, path)
        /\ IF IsCertificateValid(Read(fs, path), now)
           THEN /\ pc' = "args"
                /\ trace' = trace \o <<Returned("EnsureSSHCertificate", TRUE)>>
                /\ logs' = logs \o log0 \o
                     <<Debugf("Using existing valid certificate: %s", <<path>>)>>
                /\ UNCHANGED exitCode
           ELSE IF NotExist(fs, PathStr(privateKeyPath))
           THEN /\ Fatal(<<[op |-> "missing", path |-> PathStr(privateKeyPath)]>>)
                /\ logs' = logs \o log1 \o <<notFound("private key not found", privateKeyPath)>>
           ELSE IF NotExist(fs, PathStr(publicKeyPath))
           THEN /\ Fatal(<<[op |-> "missing", path |-> PathStr(publicKeyPath)]>>)
                /\ logs' = logs \o log1 \o <<notFound("public key not found", publicKeyPath)>>
           ELSE /\ pc' = "cert_sign"
                /\ logs' = logs \o log1
                /\ UNCHANGED <<trace, exitCode>>
  /\ UNCHANGED <<cfg, args, osArgs, flags, procs, configFile, sshOptions, command, address,
                 env, now, token, tokenFile, fs, target, signed, child, runs>>

\* SignSSHKey: read the public key, send the request, take signed_key
CertSign ==
  /\ pc = "cert_sign"
  /\ LET publicKeyPath == PublicKeyPath(GetPrivateKeyPath(cfg, target.user))
         pubKeyData == Read(fs, PathStr(publicKeyPath))
         req == SignRequest(cfg, target.user, pubKeyData, token)
         log0 == <<Debugf("Signing SSH key for user %s with role %s",
                          <<target.user, VaultRole(cfg, target.user)>>)>>
         failed(vals) == Fatalf("Failed to ensure SSH certificate: %v",
                                <<"failed to sign SSH key">> \o vals)
     IN IF pubKeyData = NoFile
        THEN /\ Fatal(<<>>)
             /\ logs' = logs \o
                  <<failed(<<"failed to read public key %s", PathStr(publicKeyPath)>>)>>
             /\ UNCHANGED signed
        ELSE \E resp \in SignResponses(req, now) :
               IF ~ SignSSHKey(pubKeyData, resp).ok
               THEN /\ Fatal(<<req>>)
                    /\ logs' = logs \o log0 \o
                         <<failed(IF resp.kind = "err"
                                  THEN <<PathStr(req.path), "permission denied">>
                                  ELSE IF resp.kind = "nodata"
                                  THEN <<"no data returned from Vault SSH signing">>
                                  ELSE <<"signed_key not found in Vault response">>)>>
                    /\ UNCHANGED signed
               ELSE /\ signed' = SignSSHKey(pubKeyData, resp).cert
                    /\ trace' = trace \o <<req>>
                    /\ logs' = logs \o log0 \o
                         <<Debugf("Successfully signed SSH key for user %s", <<target.user>>)>>
                    /\ pc' = "cert_write"
                    /\ UNCHANGED exitCode
  /\ UNCHANGED <<cfg, args, osArgs, flags, procs, configFile, sshOptions, command, address,
                 env, now, token, tokenFile, fs, target, certPath, seen, child, runs>>

\* the rest of EnsureSSHCertificate: MkdirAll, WriteFile, return the path
CertWrite ==
  /\ pc = "cert_write"
  /\ \E outcome \in SaveOutcomes :
       IF outcome \in {"mkdir fails", "open fails"}
       THEN /\ Fatal(<<>>)
            /\ logs' = logs \o
                 <<Fatalf("Failed to ensure SSH certificate: %v", <<outcome, certPath>>)>>
            /\ UNCHANGED fs
       ELSE IF outcome = "write fails"
       THEN /\ Fatal(<<>>)
            /\ logs' = logs \o
                 <<Fatalf("Failed to ensure SSH certificate: %v", <<outcome, certPath>>)>>
            /\ fs' = Write(fs, certPath, Garbage)
       ELSE /\ fs' = Write(fs, certPath, signed)
            /\ trace' = trace \o <<Returned("EnsureSSHCertificate", TRUE)>>
            /\ logs' = logs \o <<Infof("SSH certificate saved to: %s", <<certPath>>)>>
            /\ pc' = "args"
            /\ UNCHANGED exitCode
  /\ UNCHANGED <<cfg, args, osArgs, flags, procs, configFile, sshOptions, command, address,
                 env, now, token, tokenFile, target, certPath, seen, signed, child, runs>>

\* ParseSSHArgs and GetPrivateKeyPath: the options and the command for Connect
ParseArgs ==
  /\ pc = "args"
  /\ LET parsed == ParseSSHArgs(args)
         privateKeyPath == GetPrivateKeyPath(cfg, target.user)
     IN /\ sshOptions' = [parsed.options EXCEPT !.identityFile = PathStr(privateKeyPath)]
        /\ command' = parsed.command
        /\ logs' = logs \o
             <<Debugf("About to parse SSH arguments: %v",
                      <<Flatten(args[1])>> \o SubSeq(args, 2, Len(args))),
               Debugf("SSH options parsed successfully", <<>>),
               Debugf("Private key path: %s", <<PathStr(privateKeyPath)>>)>>
  /\ pc' = "connect"
  /\ UNCHANGED <<cfg, args, osArgs, flags, procs, configFile, address, env, now, token,
                 tokenFile, fs, trace, target, certPath, seen, signed, child, exitCode, runs>>

\* ValidateSSHBinary, then Connect up to the start of the child
Connect ==
  /\ pc = "connect"
  /\ \E found \in BOOLEAN, started \in BOOLEAN :
       LET argv == ConnectArgs(target, certPath, sshOptions, command)
           log0 == <<Debugf("SSH binary validation passed", <<>>),
                     Infof("Using certificate: %s", <<certPath>>),
                     Infof("Using private key: %s", <<sshOptions.identityFile>>),
                     Debugf("About to execute SSH connection", <<>>),
                     Debugf("Executing SSH command: ssh %s", argv)>>
       IN IF ~ found
          THEN /\ Fatal(<<>>)
               /\ logs' = logs \o
                    <<Fatalf("SSH validation failed: %v", <<"SSH binary not found in PATH">>)>>
               /\ UNCHANGED child
          ELSE IF ~ started
          THEN /\ Fatal(<<Returned("ValidateSSHBinary", TRUE),
                          [op |-> "exec failed", argv |-> argv],
                          [op |-> "connect", err |-> ConnectError([kind |-> "not started"])]>>)
               /\ logs' = logs \o log0 \o
                    <<Fatalf("SSH connection failed: %v", <<"failed to execute SSH command">>)>>
               /\ child' = "failed"
          ELSE /\ trace' = trace \o <<Returned("ValidateSSHBinary", TRUE),
                                      [op |-> "exec", argv |-> argv]>>
               /\ logs' = logs \o log0
               /\ child' = "running"
               /\ pc' = "wait"
               /\ UNCHANGED exitCode
  /\ UNCHANGED <<cfg, args, osArgs, flags, procs, configFile, sshOptions, command, address,
                 env, now, token, tokenFile, fs, target, certPath, seen, signed, runs>>

\* cmd.Run() returns: the child has ended with a status
ChildExit ==
  /\ pc = "wait"
  /\ \E status \in ChildStatuses :
       LET err == ConnectError([kind |-> "exited", status |-> status]) IN
       /\ child' = "exited"
       /\ IF err.kind = "nil"
          THEN /\ trace' = trace \o <<[op |-> "child", status |-> status],
                                      [op |-> "connect", err |-> err]>>
               /\ logs' = logs \o <<Debugf("SSH connection completed successfully", <<>>)>>
               /\ pc' = "exit"
               /\ exitCode' = 0
          ELSE /\ Fatal(<<[op |-> "child", status |-> status],
                          [op |-> "connect", err |-> err]>>)
               /\ logs' = logs \o
                    <<Fatalf("SSH connection failed: %v",
                             <<"SSH connection failed with exit code %d">>
                               \o (IF err.kind = "exit" THEN <<ToString(err.code)>>
                                   ELSE <<>>))>>
  /\ UNCHANGED <<cfg, args, osArgs, flags, procs, configFile, sshOptions, command, address,
                 env, now, token, tokenFile, fs, target, certPath, seen, signed, runs>>

\* the command is run again: a new process over the files the last one left
MaxRuns == 2

Restart ==
  /\ pc = "exit"
  /\ Len(runs) < MaxRuns - 1
  /\ runs' = Append(runs,
       [saved |-> IF \E i \in 1..Len(trace) : trace[i].op = "save"
                  THEN token ELSE ""])
  /\ pc' = "start"
  /\ token' = ""
  /\ address' = ""
  /\ logs' = <<>>
  /\ sshOptions' = NoOptions
  /\ command' = <<>>
  /\ trace' = <<>>
  /\ target' = [user |-> "", host |-> ""]
  /\ certPath' = ""
  /\ seen' = NoFile
  /\ signed' = NoFile
  /\ child' = "none"
  /\ exitCode' = -1
  /\ UNCHANGED <<cfg, args, osArgs, flags, procs, configFile, env, now, tokenFile, fs>>

(***************************************************************************)
(* Two invocations for one identity, side by side at the certificate       *)
(* stage (EnsureSSHCertificate, then Connect).  os.WriteFile opens the     *)
(* file with O_TRUNC and then writes: two steps for the file system.       *)
(***************************************************************************)
Procs == {1, 2}
Empty == [kind |-> "empty"]

raceFrame ==
  <<pc, cfg, args, osArgs, flags, address, configFile, logs, sshOptions, command, env, now,
    token, tokenFile, trace, target, certPath, seen, signed, child, exitCode, runs>>

RacePath == PathStr(GetCertificatePath(cfg, target.user))

\* IsCertificateValid, then the two os.Stat calls on the key pair
RaceCheck(p) ==
  /\ p \in DOMAIN procs
  /\ procs[p].pc = "cert"
  /\ LET privateKeyPath == GetPrivateKeyPath(cfg, target.user)
         publicKeyPath == PublicKeyPath(privateKeyPath)
         file == Read(fs, RacePath)
     IN procs' = [procs EXCEPT ![p].seen = file,
                               ![p].pc =
                                 IF IsCertificateValid(file, now) THEN "args"
                                 ELSE IF NotExist(fs, PathStr(privateKeyPath)) THEN "failed"
                                 ELSE IF NotExist(fs, PathStr(publicKeyPath)) THEN "failed"
                                 ELSE "cert_sign"]
  /\ UNCHANGED <<fs, raceFrame>>

\* SignSSHKey
RaceSign(p) ==
  /\ p \in DOMAIN procs
  /\ procs[p].pc = "cert_sign"
  /\ LET publicKeyPath == PublicKeyPath(GetPrivateKeyPath(cfg, target.user))
         req == SignRequest(cfg, target.user, Read(fs, PathStr(publicKeyPath)), token)
     IN \E resp \in SignResponses(req, now) :
          IF resp.kind # "ok"
          THEN procs' = [procs EXCEPT ![p].pc = "failed"]
          ELSE procs' = [procs EXCEPT ![p].signed = resp.blob, ![p].pc = "cert_open"]
  /\ UNCHANGED <<fs, raceFrame>>

\* os.WriteFile, first half: OpenFile(O_WRONLY|O_CREATE|O_TRUNC) empties the file
RaceOpen(p) ==
  /\ p \in DOMAIN procs
  /\ procs[p].pc = "cert_open"
  /\ fs' = Write(fs, RacePath, Empty)
  /\ procs' = [procs EXCEPT ![p].pc = "cert_write"]
  /\ UNCHANGED raceFrame

\* os.WriteFile, second half: the blob is written from offset 0.  Over bytes
\* another writer put there since the open, a shorter blob leaves a mixture.
RaceWrite(p) ==
  /\ p \in DOMAIN procs
  /\ procs[p].pc = "cert_write"
  /\ \E shorter \in BOOLEAN :
       /\ shorter => Read(fs, RacePath) \notin {Empty, procs[p].signed}
       /\ fs' = Write(fs, RacePath, IF shorter THEN Garbage ELSE procs[p].signed)
  /\ procs' = [procs EXCEPT ![p].pc = "args"]
  /\ UNCHANGED raceFrame

\* Connect: the child is started with -o CertificateFile=<path>
RaceConnect(p) ==
  /\ p \in DOMAIN procs
  /\ procs[p].pc = "args"
  /\ procs' = [procs EXCEPT ![p].handed = Read(fs, RacePath), ![p].pc = "wait"]
  /\ UNCHANGED <<fs, raceFrame>>

\* the ssh child reads the certificate file and runs to its end
RaceChild(p) ==
  /\ p \in DOMAIN procs
  /\ procs[p].pc = "wait"
  /\ procs' = [procs EXCEPT ![p].read = Read(fs, RacePath), ![p].pc = "done"]
  /\ UNCHANGED <<fs, raceFrame>>

(***************************************************************************)
(* Where an invocation starts: a configuration file, arguments, an         *)
(* environment, a token file and a key directory, as some earlier run or   *)
(* the operator left them.                                                 *)
(***************************************************************************)
NowBase == 1000

NoUsers == [u \in {} |-> [privateKey |-> <<>>, vaultRole |-> ""]]
OneUser(u, key, r) == [x \in {u} |-> [privateKey |-> key, vaultRole |-> r]]

BaseCfg ==
  [address |-> "https://vault.example.com", authMethod |-> "token",
   oidcRole |-> "", oidcMount |-> "oidc",
   userpassUser |-> "", userpassMount |-> "userpass",
   ldapUser |-> "", ldapMount |-> "ldap",
   role |-> "", tokenPath |-> <<"~", ".vault-token">>,
   keyDirectory |-> <<"home", "op", ".ssh">>, certTTL |-> 3600,
   signingEngine |-> "ssh-client-signer", users |-> NoUsers]

\* the authentication sections a configuration file may hold
AuthSections ==
  {[authMethod |-> "token", user |-> "", oidcRole |-> ""],
   [authMethod |-> "userpass", user |-> "", oidcRole |-> ""],
   [authMethod |-> "userpass", user |-> "dave", oidcRole |-> ""],
   [authMethod |-> "ldap", user |-> "", oidcRole |-> ""],
   [authMethod |-> "ldap", user |-> "erin", oidcRole |-> ""],
   [authMethod |-> "oidc", user |-> "", oidcRole |-> "sso"],
   [authMethod |-> "oidc", user |-> "", oidcRole |-> ""],
   [authMethod |-> "", user |-> "", oidcRole |-> ""],
   [authMethod |-> "kerberos", user |-> "", oidcRole |-> ""]}

UserSections ==
  {NoUsers,
   OneUser("alice", <<"~", "keys", "alice_key">>, ""),
   OneUser("alice", <<"~", "keys", "alice_key">>, "ops-role"),
   OneUser("alice", <<>>, "")}

MkCfg(a, users, r, ttl, dir, tp) ==
  [BaseCfg EXCEPT !.authMethod = a.authMethod, !.oidcRole = a.oidcRole,
                  !.userpassUser = a.user, !.ldapUser = a.user,
                  !.users = users, !.role = r, !.certTTL = ttl,
                  !.keyDirectory = dir, !.tokenPath = tp]

Texts(words) == [text : words, mode : {600, 644}]

\* the certificate files a key directory may hold at time t
Windows(t) ==
  {Cert(va, vb, "kA", "alice") :
     va \in {0, SubU64(t, NotBeforeSkew), t, t + 1},
     vb \in {0, t - 1, t, t + 1, t + 299, t + 300, t + 301, t + 3600,
             t + MaxDurationSeconds, t + MaxDurationSeconds + 1, CertTimeInfinity}}

\* the key directory: the certificate of the user at its path, the key pair
MkFs(c, user, certFile, private, public) ==
  IF validateConfig(c) # "ok" THEN [p \in {} |-> NoFile]
  ELSE LET lc == LoadConfig(c)
           key == GetPrivateKeyPath(lc, user)
           files ==
             {<<PathStr(GetCertificatePath(lc, user)), certFile>>,
              <<PathStr(key), IF private THEN [kind |-> "private", key |-> "kA"] ELSE NoFile>>,
              <<PathStr(PublicKeyPath(key)), IF public THEN PubKey("kA") ELSE NoFile>>}
           present == {f \in files : f[2] # NoFile}
       IN [p \in {f[1] : f \in present} |->
             (CHOOSE f \in present : f[1] = p)[2]]

\* the user ParseSSHTarget will come to, for laying out the key directory
UserOf(a, e) ==
  IF a = <<>> THEN "alice"
  ELSE LET t == ParseSSHTarget(a[1], e.user) IN IF t.ok THEN t.user ELSE "alice"

InitWith(Cfgs, Argvs, Envs, TokenFiles, CertFiles, Keys) ==
  /\ pc = "start"
  /\ cfg \in Cfgs
  /\ osArgs \in Argvs
  /\ args = ParseFlags(osArgs).args
  /\ flags = ParseFlags(osArgs).flags
  /\ env \in Envs
  /\ now = NowBase
  /\ token = ""
  /\ address = ""
  /\ procs = <<>>
  /\ configFile = NoFile
  /\ logs = <<>>
  /\ sshOptions = NoOptions
  /\ command = <<>>
  /\ tokenFile \in TokenFiles
  /\ \E cf \in CertFiles, k \in Keys :
       fs = MkFs(cfg, UserOf(args, env), cf, k[1], k[2])
  /\ trace = <<>>
  /\ target = [user |-> "", host |-> ""]
  /\ certPath = ""
  /\ seen = NoFile
  /\ signed = NoFile
  /\ child = "none"
  /\ exitCode = -1
  /\ runs = <<>>

Alice == <<"alice", "@", "h1">>

\* the whole command, every stage with a few cases
Init ==
  InitWith(
    {MkCfg(a, u, r, ttl, <<"home", "op", ".ssh">>, <<"~", ".vault-token">>) :
       a \in AuthSections, u \in {NoUsers}, r \in {""}, ttl \in {0, 3600}},
    {<<>>, <<Alice>>, <<Alice, <<"--">>, <<"ls">>, <<"-la">>>>, <<<<"h1">>>>, <<<<"@", "h1">>>>,
     <<<<"alice", "@">>>>, <<<<"alice", "@", "h1", "@", "h2">>>>},
    [user : {"", "bob"}, token : {""}, addr : {""}],
    {NoFile, [text |-> <<"tok3600", "\n">>, mode |-> 600],
     [text |-> <<"tok403">>, mode |-> 600]},
    {NoFile, Cert(0, NowBase + 3600, "kA", "alice"), Cert(0, NowBase + 1, "kA", "alice")},
    {<<TRUE, TRUE>>, <<FALSE, FALSE>>})

\* the authentication stage in breadth: every method, token file and
\* environment token, in front of a certificate that is still good
InitAuth ==
  InitWith(
    {MkCfg(a, NoUsers, "", 3600, <<"home", "op", ".ssh">>, tp) :
       a \in AuthSections, tp \in {<<"~", ".vault-token">>, <<>>}},
    {<<Alice>>},
    [user : {"bob"},
     token : {"", "tok3600", "tok300", "tok299", "tok403", "tokNil", "tokNoData",
              "tokNoTTL", "tokBadTTL"},
     addr : {""}],
    {NoFile} \cup
      Texts({<<>>, <<" ", "\n">>, <<"tok3600", "\n">>, <<" ", "tok300">>,
             <<"tok299", "\n">>, <<"tok403">>}),
    {NoFile, Cert(0, NowBase + 3600, "kA", "alice")},
    {<<TRUE, TRUE>>})

\* the certificate stage in breadth: every validity window, key file and role
\* setting, behind a token that is still good
InitCert ==
  InitWith(
    {MkCfg([authMethod |-> "token", user |-> "", oidcRole |-> ""], u, r, ttl, dir,
           <<"~", ".vault-token">>) :
       u \in UserSections \ {OneUser("alice", <<>>, "")},
       r \in {"", "global-role"}, ttl \in {120, 3600},
       dir \in {<<"home", "op", ".ssh">>, <<"~", ".ssh">>}},
    {<<Alice>>, <<<<"h1">>>>, <<<<"a.b-c", "@", "h1">>>>},
    [user : {"bob"}, token : {""}, addr : {""}],
    {[text |-> <<"tok3600", "\n">>, mode |-> 600]},
    {NoFile, Garbage, PubKey("kA")} \cup Windows(NowBase),
    {<<TRUE, TRUE>>, <<TRUE, FALSE>>, <<FALSE, TRUE>>, <<FALSE, FALSE>>})

\* the two password flows in breadth: user name configured or asked for,
\* mount left empty, default or set, with and without a token in hand
InitLogin ==
  InitWith(
    {[BaseCfg EXCEPT !.authMethod = m, !.userpassUser = u, !.ldapUser = u,
                     !.userpassMount = mu, !.ldapMount = ml] :
       m \in {"userpass", "ldap"}, u \in {"", "dave"},
       mu \in {"", "corp"}, ml \in {"", "corp"}},
    {<<Alice>>},
    [user : {"bob"}, token : {"", "tok299"}, addr : {""}],
    {NoFile},
    {NoFile, Cert(0, NowBase + 3600, "kA", "alice")},
    {<<TRUE, TRUE>>})

\* the command line in breadth: flags, targets and command words, in front
\* of a plain configuration
CmdLines ==
  {<<>>, <<Alice>>, <<<<"h1">>>>, <<<<>>>>, <<<<"@">>>>, <<<<"@", "h1">>>>, <<<<"alice", "@">>>>,
   <<<<"alice", "@", "h1", "@", "h2">>>>,
   <<<<"-p">>, <<"2222">>, Alice>>, <<<<"-4">>, Alice>>, <<<<"-6">>, Alice>>,
   <<<<"-i">>, <<"mykey">>, Alice>>, <<<<"-v">>, Alice>>, <<<<"-p">>>>,
   <<Alice, <<"ls">>, <<"/tmp">>>>, <<Alice, <<"ls">>, <<"-la">>>>,
   <<Alice, <<"--">>, <<"ls">>, <<"-la">>>>, <<Alice, <<"uname">>, <<"-v">>>>,
   <<<<"h1">>, <<"uptime">>>>}

InitArgs ==
  InitWith(
    {MkCfg([authMethod |-> "token", user |-> "", oidcRole |-> ""], NoUsers, "", 3600,
           <<"home", "op", ".ssh">>, <<"~", ".vault-token">>)},
    CmdLines,
    [user : {"", "bob"}, token : {""}, addr : {"", "https://vault.corp:8200"}],
    {[text |-> <<"tok3600", "\n">>, mode |-> 600]},
    {NoFile, Cert(0, NowBase + 3600, "kA", "alice")},
    {<<TRUE, TRUE>>})

\* two invocations for alice at the certificate stage, over one key
\* directory and with one token
RaceCfg ==
  LoadConfig(MkCfg([authMethod |-> "token", user |-> "", oidcRole |-> ""], NoUsers, "",
                   3600, <<"home", "op", ".ssh">>, <<"~", ".vault-token">>))

InitRace ==
  /\ pc = "cert"
  /\ cfg = RaceCfg
  /\ osArgs = <<Alice>>
  /\ args = <<Alice>>
  /\ flags = NoFlags
  /\ address = RaceCfg.address
  /\ procs = [p \in Procs |->
                [pc |-> "cert", seen |-> NoFile, signed |-> NoFile, handed |-> NoFile,
                 read |-> NoFile]]
  /\ configFile = NoFile
  /\ logs = <<>>
  /\ sshOptions = NoOptions
  /\ command = <<>>
  /\ env = [user |-> "bob", token |-> "", addr |-> ""]
  /\ now = NowBase
  /\ token = "tok3600"
  /\ tokenFile = [text |-> <<"tok3600", "\n">>, mode |-> 600]
  /\ \E cf \in {NoFile, Garbage, Empty, Cert(0, NowBase - 1, "kA", "alice"),
                Cert(0, NowBase + 299, "kA", "alice"),
                Cert(0, NowBase + 3600, "kA", "alice")},
        public \in BOOLEAN :
       fs = MkFs(cfg, "alice", cf, TRUE, public)
  /\ trace = <<>>
  /\ target = [user |-> "alice", host |-> "h1"]
  /\ certPath = ""
  /\ seen = NoFile
  /\ signed = NoFile
  /\ child = "none"
  /\ exitCode = -1
  /\ runs = <<>>

NextRace ==
  \E p \in Procs :
    \/ RaceCheck(p)
    \/ RaceSign(p)
    \/ RaceOpen(p)
    \/ RaceWrite(p)
    \/ RaceConnect(p)
    \/ RaceChild(p)

\* setDefaults: what LoadConfig returns where no configuration file exists
FourHours == 4 * 3600
setDefaults ==
  [BaseCfg EXCEPT !.address = "https://vault.example.com", !.authMethod = "token",
                  !.role = "", !.tokenPath = Join(Home, <<".vault-token">>),
                  !.userpassMount = "userpass", !.ldapMount = "ldap", !.oidcMount = "oidc",
                  !.keyDirectory = Join(Home, <<".ssh">>), !.certTTL = FourHours,
                  !.signingEngine = "ssh-client-signer"]

\* the configuration in breadth: no file, and files with every field that
\* validateConfig looks at set well or badly
InitConfig ==
  InitWith(
    {setDefaults} \cup
    {[MkCfg(a, u, "", ttl, dir, <<"~", ".vault-token">>) EXCEPT !.address = ad] :
       a \in AuthSections, u \in UserSections, ttl \in {-3600, 0, 3600},
       dir \in {<<>>, <<"home", "op", ".ssh">>},
       ad \in {"", "https://vault.example.com"}},
    {<<>>, <<Alice>>},
    [user : {"bob"}, token : {""}, addr : {""}],
    {[text |-> <<"tok3600", "\n">>, mode |-> 600]},
    {NoFile, Cert(0, NowBase + 3600, "kA", "alice")},
    {<<TRUE, TRUE>>})

Next ==
  \/ Start
  \/ EnsureAuthenticated
  \/ ParseTarget
  \/ CertCheck
  \/ CertSign
  \/ CertWrite
  \/ ParseArgs
  \/ Connect
  \/ ChildExit
  \/ Restart

Spec == Init /\ [][Next]_vars

SpecAuth == InitAuth /\ [][Next]_vars

SpecCert == InitCert /\ [][Next]_vars

SpecArgs == InitArgs /\ [][Next]_vars

SpecConfig == InitConfig /\ [][Next]_vars

SpecLogin == InitLogin /\ [][Next]_vars

\* a process that is running takes its next step: every backend call
\* returns, every prompt is answered, the child exits; whether the command
\* is run again is up to the operator
Step ==
  \/ Start
  \/ EnsureAuthenticated
  \/ ParseTarget
  \/ CertCheck
  \/ CertSign
  \/ CertWrite
  \/ ParseArgs
  \/ Connect
  \/ ChildExit

\* the whole command over a few cases of every stage
InitLive ==
  InitWith(
    {MkCfg(a, NoUsers, "", ttl, <<"home", "op", ".ssh">>, <<"~", ".vault-token">>) :
       a \in {[authMethod |-> "token", user |-> "", oidcRole |-> ""],
              [authMethod |-> "ldap", user |-> "erin", oidcRole |-> ""],
              [authMethod |-> "kerberos", user |-> "", oidcRole |-> ""]},
       ttl \in {3600}},
    {<<>>, <<Alice>>, <<Alice, <<"ls">>>>, <<<<"alice", "@">>>>},
    [user : {"bob"}, token : {""}, addr : {""}],
    {NoFile, [text |-> <<"tok3600", "\n">>, mode |-> 600]},
    {NoFile, Cert(0, NowBase + 3600, "kA", "alice")},
    {<<TRUE, TRUE>>, <<FALSE, FALSE>>})

SpecLive == InitLive /\ [][Next]_vars /\ WF_vars(Step)

SpecRace == InitRace /\ [][NextRace]_vars

(***************************************************************************)
(* vssh init (cmd/init.go): write a default configuration file.            *)
(***************************************************************************)
\* GetConfigPath: $HOME/.config/vssh/config.yaml, whatever --config says
GetConfigPath == PathStr(Join(Home, <<".config", "vssh", "config.yaml">>))

\* the text CreateDefaultConfig writes
DefaultConfigText == <<"vault:", "role: ssh-client-role", "debug: false">>

\* the words after "init": [ok, force], the last --force word deciding
RECURSIVE ParseInitWords(_, _)
ParseInitWords(ws, force) ==
  IF ws = <<>> THEN [ok |-> TRUE, force |-> force]
  ELSE LET w == Flatten(Head(ws)) IN
       IF w \in {"--force", "-f", "--force=true"} THEN ParseInitWords(Tail(ws), TRUE)
       ELSE IF w = "--force=false" THEN ParseInitWords(Tail(ws), FALSE)
       ELSE IF w \in {"-v", "-d"} THEN ParseInitWords(Tail(ws), force)
       ELSE IF w \in DashWords THEN [ok |-> FALSE, force |-> force]
       ELSE ParseInitWords(Tail(ws), force)

\* a variant of the existence test that never finds the file
StatOutcomesBlind(file) == {"absent"}

\* os.Stat(configPath): nil for a file that is there, an error for one that
\* is not or whose directory cannot be searched
StatOutcomes(file) == IF file = NoFile THEN {"absent"} ELSE {"exists", "inaccessible"}

\* CreateDefaultConfig: [ok, file, ev]; the outcome is the file system's answer
CreateDefaultConfig(path, file, outcome) ==
  LET mkdir == [op |-> "mkdir", path |-> path]
      write(text) == [op |-> "write", path |-> path, text |-> text]
  IN IF outcome = "mkdir fails"
     THEN [ok |-> FALSE, file |-> file, ev |-> <<Err("error creating config directory")>>]
     ELSE IF outcome = "open fails"
     THEN [ok |-> FALSE, file |-> file,
           ev |-> <<mkdir, Err("error writing config file")>>]
     ELSE IF outcome = "write fails"
     THEN [ok |-> FALSE, file |-> WriteFile(file, <<>>, 644),
           ev |-> <<mkdir, write(<<>>), Err("error writing config file")>>]
     ELSE [ok |-> TRUE, file |-> WriteFile(file, DefaultConfigText, 644),
           ev |-> <<mkdir, write(DefaultConfigText)>>]

initFrame ==
  <<cfg, args, flags, address, procs, logs, sshOptions, command, env, now, token,
    tokenFile, fs, target, certPath, seen, signed, child>>

\* initCmd.Run, behind cobra's parse of the command line
InitCmd ==
  /\ pc = "start"
  /\ LET p == ParseInitWords(Tail(osArgs), FALSE) IN
     IF ~ p.ok
     THEN /\ trace' = trace \o <<[op |-> "usage"]>>
          /\ exitCode' = 1
          /\ UNCHANGED configFile
     ELSE \E st \in StatOutcomes(configFile), outcome \in SaveOutcomes :
            IF st = "exists" /\ ~ p.force
            THEN /\ trace' = trace \o
                      <<[op |-> "print", what |-> "Configuration file already exists at %s"]>>
                 /\ exitCode' = 0
                 /\ UNCHANGED configFile
            ELSE LET r == CreateDefaultConfig(GetConfigPath, configFile,
                            IF st = "inaccessible" /\ outcome \in {"ok", "write fails"}
                            THEN "open fails" ELSE outcome)
                 IN /\ configFile' = r.file
                    /\ trace' = trace \o r.ev \o
                         (IF r.ok
                          THEN <<[op |-> "print", what |-> "Configuration file created at %s"]>>
                          ELSE <<>>)
                    /\ exitCode' = IF r.ok THEN 0 ELSE 1
  /\ pc' = "exit"
  /\ UNCHANGED <<osArgs, runs>>
  /\ UNCHANGED initFrame

InitCmdLines ==
  {<<<<"init">>>>, <<<<"init">>, <<"--force">>>>, <<<<"init">>, <<"-f">>>>,
   <<<<"init">>, <<"--force=false">>>>, <<<<"init">>, <<"-d">>>>,
   <<<<"init">>, <<"-p">>>>, <<<<"init">>, <<"now">>>>}

\* init is run again, over the file the last run left
InitAgain ==
  /\ pc = "exit"
  /\ Len(runs) < MaxRuns - 1
  /\ runs' = Append(runs, [saved |-> ""])
  /\ osArgs' \in InitCmdLines
  /\ pc' = "start"
  /\ trace' = <<>>
  /\ exitCode' = -1
  /\ UNCHANGED configFile
  /\ UNCHANGED initFrame

InitInit ==
  /\ pc = "start"
  /\ cfg = setDefaults
  /\ osArgs \in InitCmdLines
  /\ args = <<>>
  /\ flags = NoFlags
  /\ address = ""
  /\ procs = <<>>
  /\ configFile \in {NoFile} \cup
       [text : {<<>>, <<"vault:", "role: ops">>, DefaultConfigText}, mode : {600, 644}]
  /\ logs = <<>>
  /\ sshOptions = NoOptions
  /\ command = <<>>
  /\ env = [user |-> "bob", token |-> "", addr |-> ""]
  /\ now = NowBase
  /\ token = ""
  /\ tokenFile = NoFile
  /\ fs = MkFs(cfg, "bob", NoFile, FALSE, FALSE)
  /\ trace = <<>>
  /\ target = [user |-> "", host |-> ""]
  /\ certPath = ""
  /\ seen = NoFile
  /\ signed = NoFile
  /\ child = "none"
  /\ exitCode = -1
  /\ runs = <<>>

NextInit == InitCmd \/ InitAgain

SpecInit == InitInit /\ [][NextInit]_vars

\* Client.Connect in breadth: every option set and unset, with and without a
\* certificate path, extra arguments and a command
InitConnect ==
  /\ pc = "connect"
  /\ cfg = RaceCfg
  /\ osArgs = <<Alice>>
  /\ args = <<Alice>>
  /\ flags = NoFlags
  /\ address = RaceCfg.address
  /\ procs = <<>>
  /\ configFile = NoFile
  /\ logs = <<>>
  /\ sshOptions \in
       [port : {"", "2222"}, identityFile : {"", "home/op/.ssh/id_rsa"},
        ipv4 : BOOLEAN, ipv6 : BOOLEAN, verbose : BOOLEAN, debug : BOOLEAN,
        extraArgs : {<<>>, <<"-A">>, <<"-o", "StrictHostKeyChecking=no">>}]
  /\ command \in {<<>>, <<"ls">>, <<"ls", "-la">>}
  /\ env = [user |-> "bob", token |-> "", addr |-> ""]
  /\ now = NowBase
  /\ token = "tok3600"
  /\ tokenFile = [text |-> <<"tok3600", "\n">>, mode |-> 600]
  /\ fs = MkFs(cfg, "alice", Cert(0, NowBase + 3600, "kA", "alice"), TRUE, TRUE)
  /\ trace = <<>>
  /\ target \in {[user |-> "alice", host |-> "h1"], [user |-> "bob", host |-> "h2"]}
  /\ certPath \in {"", "home/op/.ssh/vault_signed_alice.pub"}
  /\ seen = NoFile
  /\ signed = NoFile
  /\ child = "none"
  /\ exitCode = -1
  /\ runs = <<>>

NextConnect == Connect \/ ChildExit

SpecConnect == InitConnect /\ [][NextConnect]_vars

(***************************************************************************)
(* Properties.                                                             *)
(***************************************************************************)
Ops(op) == {i \in 1..Len(trace) : trace[i].op = op}
Count(op) == Cardinality(Ops(op))
ReturnedOk(fn) == {i \in 1..Len(trace) : trace[i] = Returned(fn, TRUE)}
IdentityKeyPath == GetPrivateKeyPath(cfg, target.user)
KeysPresent ==
  /\ Read(fs, PathStr(IdentityKeyPath)) # NoFile
  /\ Read(fs, PathStr(PublicKeyPath(IdentityKeyPath))) # NoFile

\* a certificate whose not-before is in the past and whose not-after is more
\* than five minutes away, in plain (unbounded) arithmetic
UsableWindow(file, t) ==
  file.kind = "cert" /\ file.va < t /\ file.vb - t > 300

\* C1: certificate gate idempotence.  Once EnsureSSHCertificate has read a
\* certificate whose not-before is in the past and whose not-after is more than
\* 5 minutes in the future, it sends no sign request, leaves the file as it
\* was and returns the certificate path of the identity.
C1_GateIdempotence ==
  UsableWindow(seen, now) =>
    /\ pc \notin {"cert_sign", "cert_write"}
    /\ Count("sign") = 0
    /\ Read(fs, certPath) = seen
    /\ certPath = PathStr(GetCertificatePath(cfg, target.user))
    /\ ReturnedOk("EnsureSSHCertificate") # {}

\* a cached certificate that is missing, unparseable, expired, not yet valid
\* or within five minutes of its end, in plain arithmetic
StaleFile(file, t) ==
  \/ file.kind \in {"absent", "garbage"}
  \/ /\ file.kind = "cert"
     /\ (t >= file.vb \/ t < file.va \/ file.vb - t < 300)

\* C2: certificate gate renewal.  When the cached certificate was stale, the
\* key files exist and EnsureSSHCertificate has returned its path, exactly one
\* sign request was sent and the file holds the blob the backend returned.
C2_GateRenewal ==
  (pc = "args" /\ StaleFile(seen, now) /\ KeysPresent) =>
    /\ Count("sign") = 1
    /\ signed # NoFile
    /\ Read(fs, certPath) = signed

\* C3: freshness postcondition.  Whenever EnsureSSHCertificate has returned a
\* path without error, the file at that path holds a certificate that
\* IsCertificateValid accepts at that moment.
C3_FreshOnReturn ==
  pc = "args" => IsCertificateValid(Read(fs, certPath), now)

\* the token file holds a token whose self-lookup reports at least 5 minutes
GoodTokenOnFile ==
  /\ cfg.tokenPath # <<>>
  /\ tokenFile # NoFile
  /\ TrimSpace(tokenFile.text) \in Tokens
  /\ LookupSelf(TrimSpace(tokenFile.text)).kind = "ttl"
  /\ LookupSelf(TrimSpace(tokenFile.text)).ttl >= 300

\* C4: token reuse.  With such a token on file, EnsureAuthenticated returns
\* success having sent the one self-lookup and nothing else: no prompt, no
\* login, and the token file is not rewritten.
C4_TokenReuse ==
  [][(pc = "auth" /\ GoodTokenOnFile) =>
       /\ pc' = "target"
       /\ tokenFile' = tokenFile
       /\ token' = TrimSpace(tokenFile.text)
       /\ trace' = trace \o <<[op |-> "lookup", tok |-> TrimSpace(tokenFile.text)],
                              Returned("EnsureAuthenticated", TRUE)>>]_vars

C4_Witness ==
  /\ pc = "target"
  /\ tokenFile # NoFile
  /\ tokenFile.text = <<" ", "tok300">>
  /\ env.token = "tok403"
  /\ token = "tok300"
  /\ Count("lookup") = 1
  /\ Count("prompt") = 0

\* the token the self-lookup of EnsureAuthenticated is made with
HeldAtLookup == AfterLoad(cfg, tokenFile, token)
LookupReportsLow ==
  /\ HeldAtLookup # ""
  /\ LookupSelf(HeldAtLookup).kind = "ttl"
  /\ LookupSelf(HeldAtLookup).ttl < 300
LookupFails == HeldAtLookup # "" /\ LookupSelf(HeldAtLookup).kind = "err"
Dispatched(tr) == \E i \in 1..Len(tr) : tr[i].op = "dispatch"

\* C5 as stated: a reported time-to-live under 5 minutes, a failing lookup,
\* or an absent token file each make EnsureAuthenticated dispatch to an
\* authentication method.
C5_RenewalTrigger ==
  [][(pc = "auth" /\ (LookupReportsLow \/ LookupFails \/ tokenFile = NoFile))
       => Dispatched(trace')]_vars

\* C5, amended: an absent token file triggers the dispatch when the client
\* holds no token from the environment either.
C5_RenewalTriggerAmended ==
  [][(pc = "auth"
      /\ (LookupReportsLow \/ LookupFails \/ (tokenFile = NoFile /\ token = "")))
       => Dispatched(trace')]_vars

C5_Witness ==
  /\ Dispatched(trace)
  /\ trace[1].op = "dispatch"
  /\ env.token = ""
  /\ Count("lookup") = 0
  /\ pc = "exit"
  /\ tokenFile = NoFile

\* C6: authenticated postcondition.  Whenever EnsureAuthenticated has returned
\* success, the client holds a non-empty token that IsTokenValid accepts.
C6_AuthenticatedPost ==
  pc = "target" => (token # "" /\ IsTokenValid(token))

\* the per-identity override of the signing role, "" when none is configured
RoleOverride ==
  IF target.user \in DOMAIN cfg.users THEN cfg.users[target.user].vaultRole ELSE ""

C8_ExitCodePassthrough ==
  \A i \in Ops("child") :
    (pc = "exit" /\ trace[i].status \in 1..255) => exitCode = trace[i].status

\* the option pair -o CertificateFile=<path> in an argument list
HasCertificateFile(argv, path) ==
  \E k \in 1..(Len(argv) - 1) :
    argv[k] = "-o" /\ argv[k + 1] = "CertificateFile=" \o path

\* C9: gate ordering.  ssh is started only after EnsureAuthenticated, then
\* EnsureSSHCertificate, then ValidateSSHBinary have succeeded, and with
\* CertificateFile set to the certificate path of the identity; a run in
\* which a stage failed ends without a child.
C9_GateOrder ==
  /\ \A i \in Ops("exec") :
       /\ \E a \in ReturnedOk("EnsureAuthenticated"),
             c \in ReturnedOk("EnsureSSHCertificate"),
             v \in ReturnedOk("ValidateSSHBinary") : a < c /\ c < v /\ v < i
       /\ HasCertificateFile(trace[i].argv, certPath)
       /\ certPath = PathStr(GetCertificatePath(cfg, target.user))
  /\ child \in {"running", "exited"} <=> Ops("exec") # {}
  /\ \A f \in Ops("fatal") :
       (\A i \in Ops("exec") : f < i) => child \in {"none", "failed"}
  /\ (pc \in {"wait"} \/ child = "running") => Ops("fatal") = {}

C9_Witness ==
  /\ child = "exited"
  /\ exitCode = 0
  /\ Count("sign") = 1
  /\ Count("dispatch") = 1

Prompts(what) == {i \in 1..Len(trace) : trace[i] = Prompt(what)}

\* C10: no retry.  One invocation dispatches at most one authentication
\* flow, shows each prompt at most once, sends at most one login and at most
\* one sign request, and does nothing more once a stage has failed.
C10_NoRetry ==
  /\ Count("dispatch") <= 1
  /\ \A i \in Ops("prompt") : Cardinality(Prompts(trace[i].what)) = 1
  /\ Count("login") + Count("callback") <= 1
  /\ Count("auth_url") <= 1
  /\ Count("sign") <= 1
  /\ \A f \in Ops("fatal") : f = Len(trace) /\ pc = "exit"

C10_Witness ==
  /\ pc = "exit"
  /\ Count("login") = 1
  /\ Count("prompt") = 2
  /\ Count("fatal") = 1
  /\ Count("sign") = 0
  /\ exitCode = 1

\* <key_directory>/vault_signed_<identity>.pub, written out
NamedCertPath ==
  PathStr(cfg.keyDirectory) \o "/" \o "vault_signed_" \o target.user \o ".pub"

PrivateKeyAbsent == Read(fs, PathStr(IdentityKeyPath)) = NoFile
PublicKeyAbsent == Read(fs, PathStr(PublicKeyPath(IdentityKeyPath))) = NoFile

\* C12: missing keys.  Once EnsureSSHCertificate has found the cached
\* certificate not valid and a key file of the identity absent, it has failed
\* with an error naming the absent path, has sent no sign request and has
\* written no certificate file.
C12_MissingKeys ==
  (certPath # "" /\ pc # "cert" /\ ~ IsCertificateValid(seen, now)
     /\ (PrivateKeyAbsent \/ PublicKeyAbsent)) =>
    /\ pc = "exit"
    /\ exitCode = 1
    /\ Count("sign") = 0
    /\ Read(fs, certPath) = seen
    /\ Count("missing") = 1
    /\ \A i \in Ops("missing") :
         /\ trace[i].path =
              IF PrivateKeyAbsent THEN PathStr(IdentityKeyPath)
              ELSE PathStr(PublicKeyPath(IdentityKeyPath))
         /\ i + 1 = Len(trace)
         /\ trace[i + 1].op = "fatal"

C12_Witness ==
  /\ pc = "exit"
  /\ certPath # ""
  /\ ~ PrivateKeyAbsent
  /\ PublicKeyAbsent
  /\ seen.kind = "cert"
  /\ Count("missing") = 1
  /\ \E i \in Ops("missing") : trace[i].path = "home/op/.ssh/id_rsa.pub"

BackendOps == {"lookup", "login", "auth_url", "callback", "sign"}

\* the prompts of the token, userpass and LDAP flows
CredentialPrompts ==
  {Prompt("token"), Prompt("Username"), Prompt("Password"),
   Prompt("LDAP Username"), Prompt("LDAP Password")}

\* the answers to those prompts that were empty or white space only
EmptyAnswers ==
  {i \in Ops("answer") :
     /\ trace[i].ok
     /\ TrimSpace(trace[i].text) = ""
     /\ trace[i - 1] \in CredentialPrompts}

\* C13: empty credential.  An empty or white-space-only secret, username or
\* password ends the flow with the empty-credential error at once: nothing is
\* sent to the backend after the dispatch, the session holds the token it
\* held before the flow, and the run ends.
C13_EmptyCredential ==
  \A i \in EmptyAnswers :
    /\ i + 2 = Len(trace)
    /\ trace[i + 1] \in {Err("token cannot be empty"), Err("username cannot be empty"),
                         Err("password cannot be empty")}
    /\ trace[i + 2].op = "fatal"
    /\ pc = "exit"
    /\ exitCode = 1
    /\ \A j \in Ops("dispatch") :
         \A k \in j..Len(trace) : trace[k].op \notin BackendOps
    /\ token = AfterLoad(cfg, tokenFile, env.token)
    /\ Count("save") = 0

C13_Witness ==
  /\ pc = "exit"
  /\ \E i \in EmptyAnswers :
       /\ trace[i - 1] = Prompt("LDAP Password")
       /\ trace[i].text = <<" ">>
       /\ trace[i + 1] = Err("password cannot be empty")
  /\ token = "tok299"
  /\ Count("login") = 0

\* the secret typed at the token prompt in the step to trace', trimmed
AcceptedSecrets(tr, from) ==
  {TrimSpace(tr[i].text) : i \in
     {k \in (from + 1)..Len(tr) :
        /\ tr[k].op = "answer"
        /\ tr[k].ok
        /\ tr[k - 1] = Prompt("token")
        /\ LookupSelf(TrimSpace(tr[k].text)).kind = "ttl"
        /\ LookupSelf(TrimSpace(tr[k].text)).ttl >= 300}}

\* C14: fresh run with token authentication.  With no token file, when the
\* operator enters a secret the backend accepts with at least 5 minutes left,
\* EnsureAuthenticated succeeds holding the trimmed secret, and the token file
\* it saves holds exactly the trimmed secret (a save that fails is reported by
\* a warning instead).
C14_FreshTokenRun ==
  [][(pc = "auth" /\ tokenFile = NoFile) =>
       \A s \in AcceptedSecrets(trace', Len(trace)) :
         /\ pc' = "target"
         /\ token' = s
         /\ trace'[Len(trace')] = Returned("EnsureAuthenticated", TRUE)
         /\ \/ /\ trace'[Len(trace') - 1] = [op |-> "save", created |-> TRUE]
               /\ tokenFile' # NoFile
               /\ tokenFile'.text = <<s>>
            \/ /\ trace'[Len(trace') - 1] = [op |-> "warn"]
               /\ Flatten(IF tokenFile' = NoFile THEN <<>> ELSE tokenFile'.text) = ""]_vars

C14_Witness ==
  /\ pc = "target"
  /\ runs = <<>>
  /\ tokenFile # NoFile
  /\ tokenFile.text = <<"tok300">>
  /\ token = "tok300"
  /\ \E i \in Ops("answer") : trace[i].text = <<" ", "tok300", "\n">>
  /\ \E i \in Ops("save") : trace[i].created

\* C15: IsTokenValid is a total gate predicate.  Every self-lookup made by
\* IsTokenValid is followed by its caller going on (the call returned, it
\* did not panic), and the caller goes on as after "true" exactly when the
\* lookup answered with a time-to-live of at least 5 minutes.
C15_TotalGate ==
  \A i \in Ops("lookup") :
    LET r == LookupSelf(trace[i].tok) IN
    /\ i < Len(trace)
    /\ trace[i + 1] # Panic
    /\ (trace[i + 1].op \in {"return", "save", "warn"})
         <=> (r.kind = "ttl" /\ r.ttl >= 300)

\* a file no ssh server would accept as a certificate at time t: missing,
\* not a certificate, expired, not yet valid, or with under 5 minutes left
Unusable(file, t) ==
  \/ file.kind # "cert"
  \/ /\ file.kind = "cert"
     /\ (t >= file.vb \/ t < file.va \/ file.vb - t < 300)

\* C16: IsCertificateValid rejects every unusable certificate, whatever the
\* values of not-before and not-after, 0 included.
C16_RejectsUnusable ==
  (certPath # "" /\ Unusable(seen, now)) => ~ IsCertificateValid(seen, now)

\* a certificate with not-before <= now and at least 5 minutes to not-after
Usable(file, t) ==
  file.kind = "cert" /\ file.va <= t /\ file.vb - t >= 300

\* C17: IsCertificateValid accepts every usable certificate, up to the
\* largest not-after an unsigned 64-bit field can hold.
C17_AcceptsUsable ==
  (certPath # "" /\ Usable(seen, now)) => IsCertificateValid(seen, now)

\* C18: token file permissions.  After a successful SaveTokenToFile the token
\* file is readable and writable by its owner only, whether the save created
\* it or found it there.
C18_OwnerOnly ==
  Count("save") > 0 => (tokenFile # NoFile /\ tokenFile.mode = 600)

\* the step to tr' ended with the save warning and the successful return
EndsWithWarning(tr) ==
  /\ Len(tr) >= 2
  /\ tr[Len(tr) - 1] = [op |-> "warn"]
  /\ tr[Len(tr)] = Returned("EnsureAuthenticated", TRUE)

\* C19: a token save that fails is not fatal.  When the flow succeeded and
\* SaveTokenToFile failed, EnsureAuthenticated logs the warning and returns
\* success with the new token installed; every warning is followed by the
\* successful return, and a sign request of the same run carries that token.
C19_SaveFailureNonFatal ==
  /\ [][(pc = "auth" /\ \E i \in (Len(trace) + 1)..Len(trace') : trace'[i].op = "warn") =>
          /\ EndsWithWarning(trace')
          /\ pc' = "target"
          /\ exitCode' = -1
          /\ token' \in {"tok3600", "tok300", "tok299"}
          /\ \A s \in AcceptedSecrets(trace', Len(trace)) : token' = s
          /\ \E i \in (Len(trace) + 1)..Len(trace') : trace'[i].op = "dispatch"]_vars
  /\ [](\A i \in Ops("warn") :
          /\ trace[i + 1] = Returned("EnsureAuthenticated", TRUE)
          /\ \A j \in Ops("sign") : j > i /\ trace[j].tok = token)

C19_Witness ==
  /\ Count("warn") = 1
  /\ Count("login") = 1
  /\ Count("sign") = 1
  /\ \A j \in Ops("sign") : trace[j].tok = token
  /\ token = "tok3600"
  /\ tokenFile = NoFile
  /\ pc = "args"

\* what the invocation before this one left saved, "" if nothing
LastSaved == IF runs = <<>> THEN "" ELSE runs[Len(runs)].saved
BlankTokenFile == tokenFile # NoFile /\ TrimSpace(tokenFile.text) = ""

\* C20: token persistence round trip.  The token one invocation saved is the
\* token LoadTokenFromFile installs in the next; while its lookup reports at
\* least 5 minutes the next invocation prompts for nothing and logs in
\* nowhere.  A token file that is blank makes the load fail, and the run goes
\* on as with no token.
C20_RoundTrip ==
  [][pc = "auth" =>
       /\ LastSaved # "" =>
            /\ LoadTokenFromFile(cfg, tokenFile) = [ok |-> TRUE, token |-> LastSaved]
            /\ (LookupSelf(LastSaved).kind = "ttl" /\ LookupSelf(LastSaved).ttl >= 300) =>
                 /\ pc' = "target"
                 /\ token' = LastSaved
                 /\ tokenFile' = tokenFile
                 /\ trace' = trace \o <<[op |-> "lookup", tok |-> LastSaved],
                                        Returned("EnsureAuthenticated", TRUE)>>
       /\ BlankTokenFile =>
            /\ ~ LoadTokenFromFile(cfg, tokenFile).ok
            /\ AfterLoad(cfg, tokenFile, token) = token
            /\ token = "" => Dispatched(trace')]_vars

C20_Witness ==
  /\ runs # <<>>
  /\ LastSaved = "tok3600"
  /\ env.token = ""
  /\ pc = "target"
  /\ token = "tok3600"
  /\ trace = <<[op |-> "lookup", tok |-> "tok3600"],
               Returned("EnsureAuthenticated", TRUE)>>

\* the argument list of the ssh child, where the run got as far as a child
ChildArgs == {trace[i].argv : i \in Ops("exec")}
HasWord(a, w) == \E k \in 1..Len(a) : a[k] = w
HasPair(a, w, v) == \E k \in 1..(Len(a) - 1) : a[k] = w /\ a[k + 1] = v

\* C21: when the command line carries -p <port>, -4 or -6, the argument list
\* of the ssh child carries -p <port>, -4 or -6 respectively.
C21_FlagPassthrough ==
  \A a \in ChildArgs :
    /\ flags.port # "" => HasPair(a, "-p", flags.port)
    /\ flags.ipv4 => HasWord(a, "-4")
    /\ flags.ipv6 => HasWord(a, "-6")

\* the target word of the command line and what stands after it
TargetWord == args[1]
AtSigns(t) == {i \in 1..Len(t) : t[i] = "@"}
BeforeAt(t) == Flatten(SubSeq(t, 1, (CHOOSE i \in AtSigns(t) : TRUE) - 1))
AfterAt(t) == Flatten(SubSeq(t, (CHOOSE i \in AtSigns(t) : TRUE) + 1, Len(t)))
\* the words typed after the target, an option terminator left out
RECURSIVE WordsAfterTarget(_, _)
WordsAfterTarget(ws, seenTarget) ==
  IF ws = <<>> THEN <<>>
  ELSE LET w == Flatten(Head(ws)) IN
       IF ~ seenTarget
       THEN IF w \in ValueFlags
            THEN IF Len(ws) = 1 THEN <<>> ELSE WordsAfterTarget(Tail(Tail(ws)), FALSE)
            ELSE IF w \in DashWords THEN WordsAfterTarget(Tail(ws), FALSE)
            ELSE WordsAfterTarget(Tail(ws), TRUE)
       ELSE IF w = "--" THEN [i \in 1..(Len(ws) - 1) |-> Flatten(ws[i + 1])]
       ELSE <<w>> \o WordsAfterTarget(Tail(ws), TRUE)
\* the account that runs the process: USER, or the owner of the home directory
OSUser == IF env.user # "" THEN env.user ELSE Home[2]
\* the run has been through ParseSSHTarget
PastTarget == pc \in {"cert", "cert_sign", "cert_write", "args", "connect", "wait", "exit"}
                /\ ReturnedOk("EnsureAuthenticated") # {}
TargetRejected == pc = "exit" /\ exitCode = 1 /\ target = [user |-> "", host |-> ""]
CommandOf(a) ==
  LET k == CHOOSE j \in 1..Len(a) : a[j] = target.user \o "@" \o target.host
  IN SubSeq(a, k + 1, Len(a))

\* C22: u@h with both parts non-empty gives identity u and host h; a target
\* without "@" gives the target as host and the invoking user as identity; an
\* empty identity or host, or more than one "@", is rejected; the words after
\* the target reach ssh, in order, as the remote command.
C22_TargetParsing ==
  /\ PastTarget =>
       IF Cardinality(AtSigns(TargetWord)) = 1
            /\ BeforeAt(TargetWord) # "" /\ AfterAt(TargetWord) # ""
       THEN target = [user |-> BeforeAt(TargetWord), host |-> AfterAt(TargetWord)]
       ELSE IF AtSigns(TargetWord) = {} /\ Flatten(TargetWord) # ""
       THEN target = [user |-> OSUser, host |-> Flatten(TargetWord)]
       ELSE TargetRejected
  /\ \A a \in ChildArgs : CommandOf(a) = WordsAfterTarget(osArgs, FALSE)
  /\ (pc = "exit" /\ trace # <<>> /\ trace[1].op = "usage") =>
       WordsAfterTarget(osArgs, FALSE) = <<>>

\* C23: when VAULT_ADDR is set, the Vault client uses its value as the
\* backend address, over vault.address of the configuration and its default.
C23_EnvAddressOverride ==
  (address # "" /\ env.addr # "") => address = env.addr

\* both invocations found the certificate stale and had a new one signed
BothSigned == \A p \in Procs : procs[p].signed # NoFile
BothWritten == \A p \in Procs : procs[p].pc \in {"args", "wait", "done"}
\* the file holds, whole, a certificate whose window contains now
HoldsValidCertificate(file) ==
  file.kind = "cert" /\ file.va <= now /\ now < file.vb

\* C24: when two invocations for one identity both find the certificate stale,
\* then under every interleaving the certificate file finally holds, whole, one
\* of the two certificates the backend returned, and each invocation hands ssh
\* a file that holds a valid certificate.
C24_AcceptedRace ==
  (procs # <<>> /\ BothSigned) =>
    /\ BothWritten =>
         /\ Read(fs, RacePath) \in {procs[p].signed : p \in Procs}
         /\ HoldsValidCertificate(Read(fs, RacePath))
    /\ \A p \in Procs :
         procs[p].pc \in {"wait", "done"} => HoldsValidCertificate(procs[p].handed)

\* the six complaints about a configuration, stated field by field
ConfigError(c) ==
  \/ c.address = ""
  \/ c.authMethod \notin {"token", "userpass", "ldap", "oidc"}
  \/ c.authMethod = "oidc" /\ c.oidcRole = ""
  \/ c.keyDirectory = <<>>
  \/ c.certTTL <= 0
  \/ \E u \in DOMAIN c.users : c.users[u].privateKey = <<>>
MethodNames == {"token", "userpass", "ldap", "oidc", "", "kerberos", "TOKEN", "Token"}

C26_DefaultRole ==
  (pc = "auth" /\ cfg = LoadConfig(setDefaults)) =>
    /\ cfg.role = "ssh-client-role"
    /\ cfg.address = "https://vault.example.com"
    /\ cfg.authMethod = "token"
    /\ cfg.certTTL = FourHours

\* the prompts whose answer is a credential
HiddenPrompts ==
  {Prompt("token"), Prompt("Password"), Prompt("LDAP Password"),
   Prompt("authorization code")}

\* every token and credential value this invocation has held, read or sent
Secrets ==
  ({token, env.token}
     \cup (IF tokenFile = NoFile THEN {}
           ELSE {Flatten(tokenFile.text), TrimSpace(tokenFile.text)})
     \cup {TrimSpace(trace[i].text) :
             i \in {j \in 2..Len(trace) :
                      trace[j].op = "answer" /\ trace[j - 1] \in HiddenPrompts}}
     \cup {trace[i].password : i \in {j \in 1..Len(trace) : trace[j].op = "login"}}
     \cup {trace[i].code : i \in {j \in 1..Len(trace) : trace[j].op = "callback"}}
     \cup {trace[i].tok :
             i \in {j \in 1..Len(trace) :
                      trace[j].op \in {"lookup", "login", "auth_url", "callback", "sign"}}})
  \ {"", " ", "\n"}

LogValues == UNION {{logs[i].vals[k] : k \in 1..Len(logs[i].vals)} : i \in 1..Len(logs)}

\* C27: no record handed to the logger, at any level, carries the session
\* token, a password, an authorization code or the text of the token file;
\* and the records about loading, testing and saving a token are the same
\* for any two tokens that Vault answers alike
C27_NoSecretInLogs ==
  LET secrets == Secrets IN
  /\ LogValues \cap secrets = {}
  /\ \A i \in 1..Len(logs) : logs[i].msg \notin secrets
  /\ \A t \in secrets :
       /\ (token # "" /\ LookupSelf(t) = LookupSelf(token)) =>
            IsTokenValidLogs(t) = IsTokenValidLogs(token)
       /\ \A o \in SaveOutcomes :
            (token # "") =>
              SaveTokenLogs(t, cfg, tokenFile, o) = SaveTokenLogs(token, cfg, tokenFile, o)

\* a token was typed at the hidden prompt, accepted and saved, and the save
\* was logged
C27_Witness ==
  /\ \E i \in 2..Len(trace) :
       /\ trace[i - 1] = Prompt("token")
       /\ trace[i].op = "answer"
       /\ TrimSpace(trace[i].text) = token
  /\ token # ""
  /\ \E i \in 1..Len(logs) : logs[i].msg = "Saved token to %s"
  /\ \E i \in 1..Len(logs) : logs[i].msg = "Authentication successful"

\* --force, in one of its spellings, is on the command line
ForceGiven == \E i \in 2..Len(osArgs) : Flatten(osArgs[i]) \in {"--force", "-f"}

\* the writes of this run: the file was opened for writing
Effects == Ops("write")

\* C28: a run of init over a file that exists, without --force, leaves the
\* file as it was and opens nothing for writing; the file changes in a
\* run of init only if it was absent or --force was given
C28_InitNeverOverwrites ==
  [][(pc = "start" /\ pc' = "exit") =>
       /\ (configFile # NoFile /\ ~ ForceGiven) =>
            /\ configFile' = configFile
            /\ \A i \in 1..Len(trace') : trace'[i].op # "write"
       /\ (configFile' # configFile) => (configFile = NoFile \/ ForceGiven)]_vars

\* init has run without --force over a file that someone had edited, said so
\* and left it alone
C28_Witness ==
  /\ pc = "exit"
  /\ ~ ForceGiven
  /\ exitCode = 0
  /\ configFile # NoFile
  /\ configFile.text = <<"vault:", "role: ops">>
  /\ Effects = {}
  /\ \E i \in Ops("print") : trace[i].what = "Configuration file already exists at %s"

\* the argument lists handed to exec.Command, started or not
Launches == {trace[i].argv : i \in Ops("exec") \cup Ops("exec failed")}

\* the words of the parts that are present, in the order of the list
RECURSIVE Present(_)
Present(parts) ==
  IF parts = <<>> THEN <<>>
  ELSE (IF Head(parts).on THEN Head(parts).words ELSE <<>>) \o Present(Tail(parts))

\* the option part of the list, part by part
OptionParts(certificate) ==
  <<[on |-> sshOptions.port # "", words |-> <<"-p", sshOptions.port>>],
    [on |-> certificate, words |-> <<"-o", "CertificateFile=" \o certPath>>],
    [on |-> sshOptions.identityFile # "", words |-> <<"-i", sshOptions.identityFile>>],
    [on |-> sshOptions.ipv4, words |-> <<"-4">>],
    [on |-> sshOptions.ipv6, words |-> <<"-6">>],
    [on |-> sshOptions.verbose, words |-> <<"-v">>],
    [on |-> sshOptions.debug, words |-> <<"-vvv">>],
    [on |-> TRUE, words |-> <<"-o", "PreferredAuthentications=publickey">>],
    [on |-> TRUE, words |-> <<"-o", "PubkeyAuthentication=yes">>],
    [on |-> TRUE, words |-> sshOptions.extraArgs]>>

\* a is the options, then the target, then the command
LaidOut(a, certificate) ==
  LET opts == Present(OptionParts(certificate))
      k == Len(opts) + 1
  IN /\ Len(a) = k + Len(command)
     /\ SubSeq(a, 1, k - 1) = opts
     /\ a[k] = target.user \o "@" \o target.host
     /\ SubSeq(a, k + 1, Len(a)) = command

ReturnedAfter(i) == IF i < Len(trace) /\ trace[i + 1].op = "connect" THEN trace[i + 1].err
                    ELSE [kind |-> "none"]

\* C30: Connect returns no error for a child that ended with status 0, an
\* error carrying N for a child that ended with status N other than 0, and
\* a different error for a child that could not be started; it returns
\* once, and nothing else
C30_ChildOutcomes ==
  /\ \A i \in Ops("child") :
       /\ trace[i].status = 0 => ReturnedAfter(i) = [kind |-> "nil"]
       /\ trace[i].status # 0 =>
            ReturnedAfter(i) = [kind |-> "exit", code |-> trace[i].status]
  /\ \A i \in Ops("exec failed") : ReturnedAfter(i) = [kind |-> "launch"]
  /\ \A i \in Ops("connect") :
       /\ i > 1
       /\ trace[i - 1].op \in {"child", "exec failed"}
       /\ trace[i].err.kind \in {"nil", "exit", "launch"}
  /\ Count("connect") <= 1
  /\ (pc = "exit" /\ Launches # {}) => Count("connect") = 1

\* the child ended with status 255 and Connect returned the error with 255
C30_Witness ==
  \E i \in Ops("child") :
    /\ trace[i].status = 255
    /\ ReturnedAfter(i) = [kind |-> "exit", code |-> 255]

\* a URL the operator can visit
WellFormedURL(u) == u # ""

\* the last event of kind op before position i, or 0
LastBefore(op, i) ==
  LET before == {j \in Ops(op) : j < i}
  IN IF before = {} THEN 0 ELSE CHOOSE j \in before : \A k \in before : k <= j

\* C31: the OIDC flow makes no backend call when no role is configured; it
\* goes on past the auth_url answer only with a well-formed URL in hand; the
\* callback comes after the auth_url request and a non-blank code, carries
\* that code and the state that came with the URL; and a callback answer
\* without auth leaves the client's token as it was
C31_OIDCOrdering ==
  /\ (\E i \in Ops("error") : trace[i].msg = "OIDC role not configured") =>
       Ops("auth_url") \cup Ops("callback") = {}
  /\ \A i \in Ops("visit") : WellFormedURL(trace[i].url)
  /\ \A i \in Ops("callback") :
       LET a == LastBefore("answer", i)
           v == LastBefore("visit", i)
       IN /\ LastBefore("auth_url", i) > 0
          /\ v > 0 /\ a > v
          /\ TrimSpace(trace[a].text) # ""
          /\ trace[i].code = TrimSpace(trace[a].text)
          /\ trace[i].state = trace[v].state
  /\ (/\ pc = "exit"
      /\ Ops("callback") # {}
      /\ \E i \in Ops("error") : trace[i].msg = "no authentication data returned") =>
       token = AfterLoad(cfg, tokenFile, NewClient(cfg, env).token)

\* the configuration with the userpass section holding what the ldap section holds
AsUserPass(c) == [c EXCEPT !.userpassUser = c.ldapUser, !.userpassMount = c.ldapMount]

\* an event of the LDAP flow in the words of the userpass flow
InUserPassWords(c, e) ==
  IF e = Prompt("LDAP Username") THEN Prompt("Username")
  ELSE IF e = Prompt("LDAP Password") THEN Prompt("Password")
  ELSE IF e = Err("LDAP authentication failed") THEN Err("userpass authentication failed")
  ELSE IF e.op = "login" /\ c.ldapMount = "" THEN [e EXCEPT !.path[2] = "userpass"]
  ELSE e

\* C32: for the same typed name and password, the same answer of Vault and
\* the same section contents, authenticateLDAP and authenticateUserPass make
\* the same prompts, checks and login call and end alike, up to the default
\* mount and the prompt and error texts; a flow makes at most one login
\* call, to auth/<mount>/login/<username> with the trimmed password
C32_SameLogic ==
  /\ \A n \in NameInputs, p \in PasswordInputs, r \in LoginResponses :
       LET l == authenticateLDAP(cfg, token, n, p, r)
           u == authenticateUserPass(AsUserPass(cfg), token, n, p, r)
       IN /\ l.ok = u.ok
          /\ l.token = u.token
          /\ Len(l.ev) = Len(u.ev)
          /\ \A i \in 1..Len(l.ev) : InUserPassWords(cfg, l.ev[i]) = u.ev[i]
  /\ Count("login") <= 1
  /\ \A i \in Ops("login") :
       LET a == LastBefore("answer", i) IN
       /\ Len(trace[i].path) = 4
       /\ trace[i].path[1] = "auth" /\ trace[i].path[3] = "login"
       /\ trace[i].path[2] \in {"userpass", "ldap", "corp"}
       /\ a > 0 /\ trace[i].password = TrimSpace(trace[a].text)

\* the LDAP flow asked for a name and a password, logged in at the default
\* mount and got a token
C32_Witness ==
  /\ cfg.authMethod = "ldap" /\ cfg.ldapMount = ""
  /\ pc = "target"
  /\ \E i \in Ops("login") :
       trace[i].path = <<"auth", "ldap", "login", "carol">> /\ trace[i].password = "pw"
  /\ Ops("prompt") # {}
  /\ token = "tok3600"

\* the path with a leading home-directory marker replaced by the home
HomeExpanded(p) == IF p # <<>> /\ Head(p) = "~" THEN Home \o Tail(p) ELSE p

\* the private key of an identity as the configuration file names it
ConfiguredKey(c, u) ==
  HomeExpanded(IF u \in DOMAIN c.users THEN c.users[u].privateKey
               ELSE c.keyDirectory \o <<"id_rsa">>)

KeyIdentities == {"alice", "bob", "a.b-c", "h1"}

\* C33: for every identity the private key path is the users entry's
\* private_key when there is one and <key_directory>/id_rsa otherwise, the
\* home marker expanded; the signer and the ssh client resolve it alike;
\* and it is the path ssh gets with -i
C33_PrivateKeyPath ==
  validateConfig(cfg) = "ok" =>
    LET c == IF pc = "start" THEN LoadConfig(cfg) ELSE cfg IN
    /\ \A u \in KeyIdentities :
         /\ GetPrivateKeyPath(c, u) = ConfiguredKey(cfg, u)
         /\ ClientGetPrivateKeyPath(c, u) = GetPrivateKeyPath(c, u)
         /\ Head(GetPrivateKeyPath(c, u)) # "~"
    /\ \A a \in Launches :
         HasPair(a, "-i", PathStr(ClientGetPrivateKeyPath(c, target.user)))

\* ssh was started for an identity whose users entry names a key under the
\* home marker
C33_Witness ==
  /\ Ops("exec") # {}
  /\ target.user \in DOMAIN cfg.users
  /\ \E a \in Launches : HasPair(a, "-i", "home/op/keys/alice_key")

\* C34: the target is parsed before authentication is attempted: a command
\* line with a malformed target sees no token lookup, no prompt and no
\* login call, and authentication starts with the target in hand
C34_TargetBeforeAuth ==
  /\ (args # <<>> /\ ~ ParseSSHTarget(args[1], env.user).ok) =>
       \A i \in 1..Len(trace) :
         trace[i].op \notin BackendOps \cup {"prompt", "answer", "dispatch", "save"}
  /\ (pc = "auth") => target.host # ""

FourMethods == {"token", "userpass", "ldap", "oidc"}

\* C35: the method is asked for exactly when the configured one is empty or
\* not one of the four; a configuration that was loaded has one of the four
\* (and a role when it is oidc), so no run of the root command shows the
\* method prompt or the missing-role error of the OIDC flow
C35_NoMethodPrompt ==
  /\ \A ch \in ChoiceInputs :
       (SelectMethod(cfg, ch).ev # <<>>) <=> (cfg.authMethod \notin FourMethods)
  /\ \A i \in 1..Len(trace) :
       /\ trace[i] # Prompt("method")
       /\ trace[i] # Err("OIDC role not configured")
       /\ trace[i] # Err("invalid choice")
  /\ (pc \notin {"start", "exit"}) =>
       /\ cfg.authMethod \in FourMethods
       /\ cfg.authMethod = "oidc" => cfg.oidcRole # ""

\* a configuration without a method was turned down when it was loaded,
\* and nothing was asked
C35_Witness ==
  /\ pc = "exit" /\ exitCode = 1
  /\ args # <<>>
  /\ cfg.authMethod = ""
  /\ Ops("prompt") = {}
  /\ Ops("fatal") # {}

\* EnsureSSHCertificate has returned an error before it came to write
FailedBeforeWrite == pc \in {"cert", "cert_sign"} /\ pc' = "exit"

\* C36: when EnsureSSHCertificate fails because a key file is missing, the
\* public key cannot be read, the sign request fails or its answer has no
\* data or no signed_key, the certificate file is as the call found it; the
\* file differs from what the call found only once a sign has given a
\* certificate
C36_FileUnchangedOnFailure ==
  /\ [][FailedBeforeWrite =>
          /\ fs' = fs
          /\ Read(fs', certPath') = seen']_vars
  /\ []((certPath # "" /\ Read(fs, certPath) # seen) => signed.kind = "cert")

\* Vault answered the sign request without a signed key and the stale
\* certificate is still in its file
C36_Witness ==
  /\ pc = "exit" /\ exitCode = 1
  /\ Count("sign") = 1
  /\ signed = NoFile
  /\ seen.kind = "cert" /\ ~ IsCertificateValid(seen, now)
  /\ Read(fs, certPath) = seen
  /\ \E i \in 1..Len(logs) : "signed_key not found in Vault response" \in
       {logs[i].vals[k] : k \in 1..Len(logs[i].vals)}

\* C37: the token file is written only in a step of EnsureAuthenticated
\* whose flow returned success (no error in the trace, and for the token
\* method a token that passed the validity test); when EnsureAuthenticated
\* fails the token file is as it was, whatever token the client then holds
C37_TokenFileOnlyOnSuccess ==
  [][/\ (tokenFile' # tokenFile) =>
          /\ pc = "auth" /\ pc' = "target"
          /\ \A i \in 1..Len(trace') : trace'[i].op \notin {"error", "panic", "fatal"}
          /\ \E i \in 1..Len(trace') : trace'[i].op \in {"save", "warn"}
          /\ cfg.authMethod = "token" => IsTokenValid(token')
     /\ (pc = "auth" /\ pc' = "exit") => tokenFile' = tokenFile]_vars

\* a typed token was refused: the run failed, the client holds the refused
\* token and the token file holds none of it
C37_Witness ==
  /\ pc = "exit" /\ exitCode = 1
  /\ \E i \in Ops("error") : trace[i].msg = "invalid token provided"
  /\ token = "tok403"
  /\ env.token # token
  /\ tokenFile # NoFile
  /\ TrimSpace(tokenFile.text) = "tok299"

\* the public key that pairs with the private key ssh gets with -i
IdentityPublicKey == Read(fs, PathStr(PublicKeyPath(GetPrivateKeyPath(cfg, target.user))))

\* C38: whenever ssh is started, the certificate in the file it is given was
\* issued over the public key of the identity's key pair and under the role
\* the configuration now resolves to, also when the file holds a
\* certificate from before the configuration was changed
C38_CertMatchesKey ==
  Ops("exec") # {} =>
    LET cert == Read(fs, certPath) IN
    /\ cert.kind = "cert"
    /\ IdentityPublicKey = PubKey(cert.key)
    /\ cert.role = VaultRole(cfg, target.user)

\* the stages of the root command in the order of its statements
StageOf(p) ==
  CASE p = "start" -> 0 [] p = "auth" -> 1 [] p = "target" -> 2 [] p = "cert" -> 3
    [] p = "cert_sign" -> 4 [] p = "cert_write" -> 5 [] p = "args" -> 6
    [] p = "connect" -> 7 [] p = "wait" -> 8 [] p = "exit" -> 9

\* C39: every run of the root command comes to the exit of the process;
\* within a run the stages only go forward (only a new invocation starts
\* over); and the process is not at its exit while the child is running
C39_Terminates ==
  /\ (pc = "start") ~> (pc = "exit")
  /\ [][\/ StageOf(pc') > StageOf(pc)
        \/ pc = "exit" /\ pc' = "start" /\ Len(runs') = Len(runs) + 1]_vars
  /\ [](pc = "exit" => child # "running")
  /\ [](child = "running" <=> pc = "wait")

\* a run went through every stage: the child was started, exited with 0 and
\* the process came to its exit
C39_Witness ==
  /\ pc = "exit" /\ exitCode = 0
  /\ child = "exited"
  /\ Count("exec") = 1 /\ Count("child") = 1
  /\ Count("sign") = 1

====
